---- MODULE Spec2Model ----
(***************************************************************************)
(* A model of hazelnut: the rule engine (rules/engine.rs, with the         *)
(* condition matcher of rules/condition.rs), the debounce tracker          *)
(* (watcher/handler.rs), the daemon's run loop with its control socket     *)
(* (daemon.rs, run_daemon) and the daemon lifecycle commands (daemon.rs,   *)
(* start_daemon, stop_daemon, get_status).                                 *)
(***************************************************************************)
EXTENDS Integers, Sequences, FiniteSets, TLC

(***************************************************************************)
(* Bounds of the model.                                                    *)
(***************************************************************************)
MaxRules == 2
MaxTime == 11
MaxDebounce == 2

(***************************************************************************)
(* Option<T>: None is the empty tuple, Some(x) the 1-tuple.                *)
(***************************************************************************)
None == << >>
Some(x) == << x >>
IsSome(o) == Len(o) = 1
Unwrap(o) == o[1]

VARIABLES
    rules,      \* RuleEngine.rules: the ordered rule list
    disk,       \* the file system: path -> metadata, or absent
    call,       \* the last call made on the engine and what it returned
    recent,     \* EventHandler.recent: path -> time it was last let through
    debounce,   \* EventHandler.debounce: the window
    now,        \* the monotonic clock read by Instant::now()
    seen,       \* the call just made on the event handler (at the time now),
                \* for each path the time should_process last returned it, and
                \* the paths suppressed since
    daemon,     \* pid -> the daemon process running run_daemon under that pid
    pidFile,    \* the PID file: the pid it holds, or None when it does not exist
    sockFile,   \* the control socket's path: the pid that bound it, or None
    configFile, \* what the configuration file holds
    nconn,      \* how many clients have connected to the control socket
    cli,        \* the lifecycle command being run from the shell
    exec,       \* the Action::execute call in progress or just finished
    pass,       \* the watcher's pass over a batch of events or over a scan
    watches,    \* the registration of the configuration's watches
    scans,      \* a watcher's threads side by side: the polling loop and the
                \* scan threads started by watch_with_rules
    app         \* the front end: AppState's flags and the embedded watcher

engineVars == << rules, disk, call >>
handlerVars == << recent, debounce, now, seen >>
daemonVars == << daemon, pidFile, sockFile, configFile, nconn, cli >>
watcherVars == << exec, pass, watches, scans, app >>

vars == << rules, disk, call, recent, debounce, now, seen,
           daemon, pidFile, sockFile, configFile, nconn, cli, exec, pass, watches,
           scans, app >>

(***************************************************************************)
(* Paths, file names and the file system.                                  *)
(***************************************************************************)
Paths == { "/in/report.PDF", "/in/.notes.txt" }

\* Path::file_name
FileName(p) ==
    CASE p = "/in/report.PDF" -> "report.PDF"
      [] p = "/in/.notes.txt" -> ".notes.txt"

\* Path::extension
Extension(p) ==
    CASE p = "/in/report.PDF" -> Some("PDF")
      [] p = "/in/.notes.txt" -> Some("txt")

\* ASCII lower-casing, as eq_ignore_ascii_case compares
Lower(s) ==
    CASE s = "PDF" -> "pdf"
      [] s = "TXT" -> "txt"
      [] OTHER     -> s

\* str::starts_with('.')
StartsWithDot(n) == n = ".notes.txt"

Absent == [exists |-> FALSE, size |-> 0, age |-> 0, dir |-> FALSE]
PlainFile(sz, days) == [exists |-> TRUE, size |-> sz, age |-> days, dir |-> FALSE]

\* a file system in which every path of the model is a regular file
DiskAllFiles ==
    [p \in Paths |-> IF p = "/in/report.PDF" THEN PlainFile(2, 1) ELSE PlainFile(1, 0)]

(***************************************************************************)
(* Condition (rules/condition.rs).                                         *)
(***************************************************************************)
\* the glob and regex patterns of the model; "[bad" and "(bad" do not compile
GlobCompiles(pat) == pat # "[bad"
GlobMatches(pat, name) ==
    CASE pat = "*"       -> TRUE
      [] pat = "report*" -> name = "report.PDF"
      [] OTHER           -> FALSE

RegexCompiles(pat) == pat # "(bad"
RegexMatches(pat, name) ==
    CASE pat = "^report" -> name = "report.PDF"
      [] pat = "txt$"    -> name = ".notes.txt"
      [] OTHER           -> FALSE

\* Result<bool>
OkBool(b) == [ok |-> TRUE, val |-> b]
ErrBool == [ok |-> FALSE, val |-> FALSE]

\* a comparison of the extension that minds the case
check_extension_exact(p, ext) ==
    IF IsSome(Extension(p)) THEN Unwrap(Extension(p)) = ext ELSE FALSE

\* check_extension: the extension of the path, compared ignoring ASCII case
check_extension(p, ext) ==
    IF IsSome(Extension(p)) THEN Lower(Unwrap(Extension(p))) = Lower(ext) ELSE FALSE

\* the pattern caches only save recompiling: a failed compile is not cached
check_glob(p, pat) ==
    IF GlobCompiles(pat) THEN OkBool(GlobMatches(pat, FileName(p))) ELSE ErrBool

check_regex(p, pat) ==
    IF RegexCompiles(pat) THEN OkBool(RegexMatches(pat, FileName(p))) ELSE ErrBool

EmptyCondition ==
    [ extension |-> None, extensions |-> << >>, name_matches |-> None,
      name_regex |-> None, size_greater_than |-> None, size_less_than |-> None,
      age_days_greater_than |-> None, age_days_less_than |-> None,
      is_directory |-> None, is_hidden |-> None ]

\* size and age predicates that let a path without metadata through
MetaChecksLenient(c, m) ==
    IF ~m.exists THEN TRUE
    ELSE IF IsSome(c.size_greater_than) /\ m.size <= Unwrap(c.size_greater_than) THEN FALSE
    ELSE IF IsSome(c.size_less_than) /\ m.size >= Unwrap(c.size_less_than) THEN FALSE
    ELSE IF IsSome(c.age_days_greater_than) /\ m.age <= Unwrap(c.age_days_greater_than) THEN FALSE
    ELSE IF IsSome(c.age_days_less_than) /\ m.age >= Unwrap(c.age_days_less_than) THEN FALSE
    ELSE TRUE

\* the size and age predicates, after one metadata read
MetaChecks(c, m) ==
    IF ~m.exists THEN FALSE
    ELSE IF IsSome(c.size_greater_than) /\ m.size <= Unwrap(c.size_greater_than) THEN FALSE
    ELSE IF IsSome(c.size_less_than) /\ m.size >= Unwrap(c.size_less_than) THEN FALSE
    ELSE IF IsSome(c.age_days_greater_than) /\ m.age <= Unwrap(c.age_days_greater_than) THEN FALSE
    ELSE IF IsSome(c.age_days_less_than) /\ m.age >= Unwrap(c.age_days_less_than) THEN FALSE
    ELSE TRUE

NeedsMeta(c) ==
    \/ IsSome(c.size_greater_than) \/ IsSome(c.size_less_than)
    \/ IsSome(c.age_days_greater_than) \/ IsSome(c.age_days_less_than)

\* Condition::matches on the file system d: Result<bool>
Matches(c, p, d) ==
    IF IsSome(c.extension) /\ ~check_extension(p, Unwrap(c.extension)) THEN OkBool(FALSE)
    ELSE IF c.extensions # << >>
            /\ ~(\E i \in 1..Len(c.extensions) : check_extension(p, c.extensions[i]))
         THEN OkBool(FALSE)
    ELSE IF IsSome(c.name_matches) /\ ~check_glob(p, Unwrap(c.name_matches)).ok THEN ErrBool
    ELSE IF IsSome(c.name_matches) /\ ~check_glob(p, Unwrap(c.name_matches)).val THEN OkBool(FALSE)
    ELSE IF IsSome(c.name_regex) /\ ~check_regex(p, Unwrap(c.name_regex)).ok THEN ErrBool
    ELSE IF IsSome(c.name_regex) /\ ~check_regex(p, Unwrap(c.name_regex)).val THEN OkBool(FALSE)
    ELSE IF NeedsMeta(c) /\ ~MetaChecks(c, d[p]) THEN OkBool(FALSE)
    ELSE IF IsSome(c.is_directory) /\ (d[p].exists /\ d[p].dir) # Unwrap(c.is_directory)
         THEN OkBool(FALSE)
    ELSE IF IsSome(c.is_hidden) /\ StartsWithDot(FileName(p)) # Unwrap(c.is_hidden)
         THEN OkBool(FALSE)
    ELSE OkBool(TRUE)

(***************************************************************************)
(* Rule and RuleEngine (rules/mod.rs, rules/engine.rs).                    *)
(***************************************************************************)
RuleNames == { "pdfs", "logs" }
ActionKinds == { "Move", "Delete" }
RuleConditions ==
    { EmptyCondition,
      [EmptyCondition EXCEPT !.extension = Some("pdf")],
      [EmptyCondition EXCEPT !.name_matches = Some("[bad")] }

Rule == [ name : RuleNames, enabled : BOOLEAN, condition : RuleConditions,
          action : ActionKinds ]

RECURSIVE SeqsUpTo(_, _)
SeqsUpTo(S, n) ==
    IF n = 0 THEN { << >> }
    ELSE LET shorter == SeqsUpTo(S, n - 1)
         IN  shorter \cup { Append(s, x) : s \in { t \in shorter : Len(t) = n - 1 }, x \in S }

\* Result<Option<Action>>
OkAction(a) == [ok |-> TRUE, action |-> a]
ErrAction == [ok |-> FALSE, action |-> None]

\* a slip of the loop of evaluate: the enabled flag is not looked at
RECURSIVE EvaluateFromAnyRule(_, _, _, _)
EvaluateFromAnyRule(rs, i, p, d) ==
    IF i > Len(rs) THEN OkAction(None)
    ELSE LET m == Matches(rs[i].condition, p, d)
         IN  IF ~m.ok THEN ErrAction
             ELSE IF m.val THEN OkAction(Some(rs[i].action))
             ELSE EvaluateFromAnyRule(rs, i + 1, p, d)

\* a slip of the loop of evaluate: a later match replaces an earlier one
RECURSIVE EvaluateLastMatch(_, _, _, _)
EvaluateLastMatch(rs, i, p, d) ==
    IF i > Len(rs) THEN OkAction(None)
    ELSE IF ~rs[i].enabled THEN EvaluateLastMatch(rs, i + 1, p, d)
    ELSE LET m == Matches(rs[i].condition, p, d)
             rest == EvaluateLastMatch(rs, i + 1, p, d)
         IN  IF ~m.ok THEN ErrAction
             ELSE IF m.val /\ rest = OkAction(None) THEN OkAction(Some(rs[i].action))
             ELSE rest

\* RuleEngine::evaluate, from rule i on
RECURSIVE EvaluateFrom(_, _, _, _)
EvaluateFrom(rs, i, p, d) ==
    IF i > Len(rs) THEN OkAction(None)
    ELSE IF ~rs[i].enabled THEN EvaluateFrom(rs, i + 1, p, d)
    ELSE LET m == Matches(rs[i].condition, p, d)
         IN  IF ~m.ok THEN ErrAction
             ELSE IF m.val THEN OkAction(Some(rs[i].action))
             ELSE EvaluateFrom(rs, i + 1, p, d)

evaluate(rs, p, d) == EvaluateFrom(rs, 1, p, d)

\* names.iter().any(|n| n == &rule.name)
NameAllowed(names, n) == \E k \in 1..Len(names) : names[k] = n

\* the loop of evaluate_filtered's first arm, from rule i on
RECURSIVE FilteredFrom(_, _, _, _, _)
FilteredFrom(rs, i, names, p, d) ==
    IF i > Len(rs) THEN OkAction(None)
    ELSE IF ~rs[i].enabled THEN FilteredFrom(rs, i + 1, names, p, d)
    ELSE IF ~NameAllowed(names, rs[i].name) THEN FilteredFrom(rs, i + 1, names, p, d)
    ELSE LET m == Matches(rs[i].condition, p, d)
         IN  IF ~m.ok THEN ErrAction
             ELSE IF m.val THEN OkAction(Some(rs[i].action))
             ELSE FilteredFrom(rs, i + 1, names, p, d)

\* a slip of evaluate_filtered: an empty name list lets no rule through
evaluate_filtered_strict(rs, p, allowed, d) ==
    IF IsSome(allowed)
    THEN FilteredFrom(rs, 1, Unwrap(allowed), p, d)
    ELSE evaluate(rs, p, d)

\* RuleEngine::evaluate_filtered; allowed is an Option of a name list
evaluate_filtered(rs, p, allowed, d) ==
    IF IsSome(allowed) /\ Unwrap(allowed) # << >>
    THEN FilteredFrom(rs, 1, Unwrap(allowed), p, d)
    ELSE evaluate(rs, p, d)

\* None, or a list of at most as many names as there are rule names
AllowedOptions ==
    { None } \cup { Some(s) : s \in SeqsUpTo(RuleNames, Cardinality(RuleNames)) }

NoCall == [fn |-> "none", path |-> "", allowed |-> None, result |-> OkAction(None)]

\* RuleEngine::new with any rule list
EngineInit ==
    /\ rules \in SeqsUpTo(Rule, MaxRules)
    /\ disk = DiskAllFiles
    /\ call = NoCall

\* no engine in use
EngineIdle ==
    /\ rules = << >>
    /\ disk = DiskAllFiles
    /\ call = NoCall

\* a caller runs evaluate(path)
Evaluate(p) ==
    /\ call' = [fn |-> "evaluate", path |-> p, allowed |-> None,
                result |-> evaluate(rules, p, disk)]
    /\ UNCHANGED << rules, disk, handlerVars, daemonVars, watcherVars >>

\* a caller runs evaluate_filtered(path, allowed)
EvaluateFiltered(p, allowed) ==
    /\ call' = [fn |-> "evaluate_filtered", path |-> p, allowed |-> allowed,
                result |-> evaluate_filtered(rules, p, allowed, disk)]
    /\ UNCHANGED << rules, disk, handlerVars, daemonVars, watcherVars >>

(***************************************************************************)
(* Condition::matches called on its own (rules/condition.rs): any          *)
(* condition of the model, on a path that is a file, a directory or not    *)
(* there.                                                                  *)
(***************************************************************************)
Directory == [exists |-> TRUE, size |-> 0, age |-> 1, dir |-> TRUE]

\* the conditions: each predicate absent or present with a value that some
\* path of the model passes and some path fails
Conditions ==
    [ extension : { None, Some("pdf"), Some("txt") },
      extensions : { << >>, << "txt", "pdf" >> },
      name_matches : { None, Some("*"), Some("report*"), Some("[bad") },
      name_regex : { None, Some("^report"), Some("(bad") },
      size_greater_than : { None, Some(1) },
      size_less_than : { None, Some(2) },
      age_days_greater_than : { None, Some(0) },
      age_days_less_than : { None, Some(1) },
      is_directory : { None, Some(TRUE), Some(FALSE) },
      is_hidden : { None, Some(TRUE), Some(FALSE) } ]

\* the file systems: both paths regular files, both directories, neither
\* there, or one of them missing
ConditionDisks ==
    { DiskAllFiles, [p \in Paths |-> Directory], [p \in Paths |-> Absent] }
    \cup { [DiskAllFiles EXCEPT ![p] = Absent] : p \in Paths }

\* a condition, in the one rule of an engine, and a file system
ConditionInit ==
    /\ rules \in { << [name |-> "pdfs", enabled |-> TRUE, condition |-> c,
                       action |-> "Delete"] >> : c \in Conditions }
    /\ disk \in ConditionDisks
    /\ call = NoCall

\* a caller runs condition.matches(path)
MatchesCall(p) ==
    /\ call' = [fn |-> "matches", path |-> p, allowed |-> None,
                result |-> Matches(rules[1].condition, p, disk)]
    /\ UNCHANGED << rules, disk, handlerVars, daemonVars, watcherVars >>

ConditionNext == \E p \in Paths : MatchesCall(p)

(***************************************************************************)
(* EventHandler, the debounce tracker (watcher/handler.rs).  Time is in    *)
(* clock ticks; the window is a number of ticks.                           *)
(***************************************************************************)
MAX_DEBOUNCE_ENTRIES == 10000

NoneSeen == [p \in Paths |-> None]
NoHandlerCall ==
    [op |-> "none", paths |-> << >>, returned |-> << >>, before |-> NoneSeen, resumed |-> {},
     known |-> {}]

\* the events: the paths of one notify::Event, at most one entry per path
\* of the model and one repeated
EventPaths == SeqsUpTo(Paths, Cardinality(Paths)) \ { << >> }

\* recent.len()
Entries(rec) == { p \in Paths : IsSome(rec[p]) }

\* a slip of the loop of should_process: every sighting restarts the window
RECURSIVE ShouldProcessTrailing(_, _, _, _, _)
ShouldProcessTrailing(rec, paths, i, t, w) ==
    IF i > Len(paths) THEN [recent |-> rec, out |-> << >>]
    ELSE LET path == paths[i]
             should == IF IsSome(rec[path]) THEN t - Unwrap(rec[path]) > w ELSE TRUE
             rest == ShouldProcessTrailing([rec EXCEPT ![path] = Some(t)], paths, i + 1, t, w)
         IN  IF should THEN [recent |-> rest.recent, out |-> << path >> \o rest.out]
             ELSE rest

\* the loop of should_process over event.paths from the i-th on, at time t:
\* the table afterwards and the paths to process
RECURSIVE ShouldProcessFrom(_, _, _, _, _)
ShouldProcessFrom(rec, paths, i, t, w) ==
    IF i > Len(paths) THEN [recent |-> rec, out |-> << >>]
    ELSE LET path == paths[i]
             should == IF IsSome(rec[path]) THEN t - Unwrap(rec[path]) > w ELSE TRUE
         IN  IF should
             THEN LET rest == ShouldProcessFrom([rec EXCEPT ![path] = Some(t)], paths, i + 1, t, w)
                  IN  [recent |-> rest.recent, out |-> << path >> \o rest.out]
             ELSE ShouldProcessFrom(rec, paths, i + 1, t, w)

\* a cleanup that keeps only what is younger than one window
cleanup_one_window(rec, t, w) ==
    [p \in Paths |-> IF IsSome(rec[p]) /\ t - Unwrap(rec[p]) < w THEN rec[p] ELSE None]

\* EventHandler::cleanup at time t: keep what is younger than 10 windows
cleanup(rec, t, w) ==
    [p \in Paths |-> IF IsSome(rec[p]) /\ t - Unwrap(rec[p]) < w * 10 THEN rec[p] ELSE None]

\* EventHandler::should_process at time t with the cap on the table at max:
\* the loop, then the forced cleanup when the table has more than max entries
should_process_capped(rec, paths, t, w, max) ==
    LET r == ShouldProcessFrom(rec, paths, 1, t, w)
    IN  [recent |-> IF Cardinality(Entries(r.recent)) > max
                    THEN cleanup(r.recent, t, w) ELSE r.recent,
         out |-> r.out]

\* EventHandler::should_process at time t, the forced cleanup included
should_process(rec, paths, t, w) ==
    should_process_capped(rec, paths, t, w, MAX_DEBOUNCE_ENTRIES)

\* MAX_DEBOUNCE_ENTRIES at the scale of the model: the table of the model has
\* room for one path more than the cap, as a table of 10,001 paths has
ScaledCap == Cardinality(Paths) - 1

\* the elements of a sequence
Range(s) == { s[i] : i \in 1..Len(s) }

\* no event handler in use
HandlerIdle ==
    /\ recent = NoneSeen
    /\ debounce = 0
    /\ now = 0
    /\ seen = [last |-> NoHandlerCall, returnedAt |-> NoneSeen, suppressed |-> {}]

\* EventHandler::new(debounce_seconds)
HandlerInit ==
    /\ recent = NoneSeen
    /\ debounce \in 0..MaxDebounce
    /\ now = 0
    /\ seen = [last |-> NoHandlerCall, returnedAt |-> NoneSeen, suppressed |-> {}]

\* time passes
Tick ==
    /\ now < MaxTime
    /\ now' = now + 1
    /\ seen' = [seen EXCEPT !.last = NoHandlerCall]
    /\ UNCHANGED << recent, debounce, engineVars, daemonVars, watcherVars >>

\* a caller runs should_process on an event with these paths
ShouldProcess(paths) ==
    LET r == should_process(recent, paths, now, debounce)
    IN  /\ recent' = r.recent
        /\ seen' = [last |-> [op |-> "should_process", paths |-> paths, returned |-> r.out,
                              before |-> [p \in Paths |-> IF p \in Range(paths)
                                                          THEN seen.returnedAt[p] ELSE None],
                              resumed |-> Range(r.out) \cap seen.suppressed,
                              known |-> Range(paths) \cap Entries(recent)],
                    returnedAt |-> [p \in Paths |->
                                      IF p \in Range(r.out) THEN Some(now)
                                      ELSE seen.returnedAt[p]],
                    suppressed |-> (seen.suppressed \cup Range(paths)) \ Range(r.out)]
        /\ UNCHANGED << debounce, now, engineVars, daemonVars, watcherVars >>

\* a caller runs cleanup
Cleanup ==
    /\ recent' = cleanup(recent, now, debounce)
    /\ seen' = [seen EXCEPT !.last = [NoHandlerCall EXCEPT !.op = "cleanup"]]
    /\ UNCHANGED << debounce, now, engineVars, daemonVars, watcherVars >>

HandlerNext ==
    \/ Tick
    \/ \E paths \in EventPaths : ShouldProcess(paths)
    \/ Cleanup

\* a caller runs should_process on an event with these paths, the constant
\* MAX_DEBOUNCE_ENTRIES being at the scale of the model
ShouldProcessCapped(paths) ==
    LET r == should_process_capped(recent, paths, now, debounce, ScaledCap)
    IN  /\ recent' = r.recent
        /\ seen' = [seen EXCEPT
                      !.last = [NoHandlerCall EXCEPT !.op = "should_process",
                                                     !.paths = paths,
                                                     !.returned = r.out],
                      !.returnedAt = [p \in Paths |->
                                        IF p \in Range(r.out) THEN Some(now) ELSE @[p]]]
        /\ UNCHANGED << debounce, now, engineVars, daemonVars, watcherVars >>

HandlerCapNext ==
    \/ Tick
    \/ \E paths \in EventPaths : ShouldProcessCapped(paths)
    \/ Cleanup

EngineNext ==
    \/ \E p \in Paths : Evaluate(p)
    \/ \E p \in Paths, allowed \in AllowedOptions : EvaluateFiltered(p, allowed)

(***************************************************************************)
(* The daemon process: run_daemon (daemon.rs).                             *)
(***************************************************************************)
MaxPid == 2
MaxFiles == 2
MaxConns == 2

Pids == 1..MaxPid

\* the signals run_daemon installs handlers for
Signals == { "SIGTERM", "SIGINT", "SIGHUP" }

\* what the configuration file may hold: nothing (the file does not exist),
\* text that does not parse, or a configuration with one watch and two rules
ConfigFiles == { "absent", "invalid", "inbox" }

\* Config::default()
DefaultConfig == [watches |-> 0, rules |-> 0]

InboxConfig == [watches |-> 1, rules |-> 2]

\* Config::load
ConfigLoad(f) ==
    CASE f = "absent" -> [ok |-> TRUE, config |-> DefaultConfig]
      [] f = "invalid" -> [ok |-> FALSE, config |-> DefaultConfig]
      [] f = "inbox" -> [ok |-> TRUE, config |-> InboxConfig]

\* Watcher::new: the engine holds the rule list of cfg; a fresh counter, no
\* directory registered, an empty watch_rules map
WatcherNew(cfg) ==
    [rules |-> cfg.rules, registered |-> 0, files_processed |-> 0, scanning |-> 0,
     watch_rules |-> {}]

\* the registration loop: watch_with_rules for each watch of the
\* configuration; a successful one registers the directory and starts its
\* scan thread, the ones in failed return an error that is only logged
\* watch_rules gets, for each registered directory, the filter that the
\* configuration gives it (here: the rule names of that configuration)
RegisterWatches(w, cfg, failed) ==
    LET n == cfg.watches - Cardinality(failed)
    IN  [w EXCEPT !.registered = n, !.scanning = n,
                  !.watch_rules = { [dir |-> i, filter |-> cfg.rules] :
                                        i \in (1..cfg.watches) \ failed }]

\* no process under this pid; config and watcher are not assigned before the
\* configuration is loaded.  To state the claims: loaded is the
\* configuration the watcher in use was built from, swapped whether a reload
\* has replaced the watcher, ticked the engine rules and the watch_rules that
\* the poll tick of this iteration processed its events with, asked whether
\* the iteration before was the Reload arm that raised the SIGHUP which the
\* sighup branch then took, hup how the sighup branch of this iteration ended
NoDaemon ==
    [pc |-> "none", sigs |-> {}, config |-> DefaultConfig,
     watcher |-> WatcherNew(DefaultConfig), queue |-> << >>, stream |-> None,
     served |-> None, reloaded |-> None, why |-> "none",
     loaded |-> DefaultConfig, swapped |-> FALSE, ticked |-> None,
     asked |-> FALSE, hup |-> "none"]

\* a process entering run_daemon
Spawned == [NoDaemon EXCEPT !.pc = "write_pid"]

\* a process that has exited, and why
Exited(why) == [NoDaemon EXCEPT !.pc = "exited", !.why = why]

\* kill(pid, 0) == 0
ProcessRunning(dm, d) == dm[d].pc \notin { "none", "exited" }

Alive(d) == ProcessRunning(daemon, d)

\* the process is past signal(SignalKind::...)
HandlersInstalled(dm, d) ==
    dm[d].pc \in { "load", "loop", "read", "stop_break", "cleanup_pid", "cleanup_sock" }

\* the process holds the bound listener
Listening(d) ==
    daemon[d].pc \in { "signals", "load", "loop", "read", "stop_break",
                       "cleanup_pid", "cleanup_sock" }

\* the run loop is running (at the select, or inside one of its branches)
Running(d) == daemon[d].pc \in { "loop", "read", "stop_break" }

\* the watcher exists and its scan threads may run
HasWatcher(d) ==
    daemon[d].pc \in { "loop", "read", "stop_break", "cleanup_pid", "cleanup_sock" }

\* kill(pid, sig): SIGKILL, or a signal whose handler is not installed yet,
\* ends the process; an installed handler records the signal
Kill(dm, d, sig) ==
    IF ~ ProcessRunning(dm, d) THEN dm
    ELSE IF sig = "SIGKILL" \/ ~ HandlersInstalled(dm, d)
         THEN [dm EXCEPT ![d] = Exited("killed")]
         ELSE [dm EXCEPT ![d].sigs = @ \cup { sig }]

\* kill(pid, sig) == 0
SendSignal(dm, d, sig) == ProcessRunning(dm, d)

\* a variant of write_pid that writes nothing
write_pid_nothing(pf, pid) == pf

\* write_pid: the PID file afterwards
write_pid(pf, pid) == Some(pid)

\* a variant of remove_pid_file that leaves the file
remove_pid_file_kept(pf) == pf

\* remove_pid_file: the PID file afterwards
remove_pid_file(pf) == None

\* a removal of the socket file that removes nothing
remove_socket_kept(sf) == sf

\* let _ = std::fs::remove_file(&sock_path): the socket file afterwards
remove_socket(sf) == None

\* get_status that forgets to remove a stale PID file
get_status_keeps(pf, dm) ==
    IF IsSome(pf) /\ ProcessRunning(dm, Unwrap(pf))
    THEN [running |-> TRUE, pid |-> pf, pidFile |-> pf]
    ELSE [running |-> FALSE, pid |-> None, pidFile |-> pf]

\* get_status that takes every PID file for a stale one
get_status_distrustful(pf, dm) ==
    [running |-> FALSE, pid |-> None,
     pidFile |-> IF IsSome(pf) THEN remove_pid_file(pf) ELSE pf]

\* get_status: (running, pid), and the PID file afterwards: a PID file
\* naming a process that is not running is removed
get_status(pf, dm) ==
    IF IsSome(pf) /\ ProcessRunning(dm, Unwrap(pf))
    THEN [running |-> TRUE, pid |-> pf, pidFile |-> pf]
    ELSE [running |-> FALSE, pid |-> None,
          pidFile |-> IF IsSome(pf) THEN remove_pid_file(pf) ELSE pf]

\* the variables the daemon's own steps never touch
notDaemon == << engineVars, handlerVars, watcherVars, configFile, nconn, cli >>

\* write_pid(std::process::id())
RunWritePid(d) ==
    /\ daemon[d].pc = "write_pid"
    /\ pidFile' = write_pid(pidFile, d)
    /\ daemon' = [daemon EXCEPT ![d].pc = "rm_sock"]
    /\ UNCHANGED << sockFile, notDaemon >>

\* let _ = remove_file(&sock_path)
RunRemoveSocket(d) ==
    /\ daemon[d].pc = "rm_sock"
    /\ sockFile' = remove_socket(sockFile)
    /\ daemon' = [daemon EXCEPT ![d].pc = "bind"]
    /\ UNCHANGED << pidFile, notDaemon >>

\* UnixListener::bind(&sock_path)?: an error when something is at the path,
\* and then run_daemon returns with the PID file left behind
RunBind(d) ==
    /\ daemon[d].pc = "bind"
    /\ IF sockFile = None
       THEN /\ sockFile' = Some(d)
            /\ daemon' = [daemon EXCEPT ![d].pc = "signals"]
       ELSE /\ sockFile' = sockFile
            /\ daemon' = [daemon EXCEPT ![d] = Exited("error")]
    /\ UNCHANGED << pidFile, notDaemon >>

\* signal(SignalKind::terminate()), interrupt(), hangup()
RunSignals(d) ==
    /\ daemon[d].pc = "signals"
    /\ daemon' = [daemon EXCEPT ![d].pc = "load"]
    /\ UNCHANGED << pidFile, sockFile, notDaemon >>

\* Config::load(..)? fails: run_daemon returns, PID file and socket left
RunLoadErr(d) ==
    /\ daemon[d].pc = "load"
    /\ ~ ConfigLoad(configFile).ok
    /\ daemon' = [daemon EXCEPT ![d] = Exited("error")]
    /\ UNCHANGED << pidFile, sockFile, notDaemon >>

\* Watcher::new(..)? fails: run_daemon returns, PID file and socket left
RunWatcherErr(d) ==
    /\ daemon[d].pc = "load"
    /\ ConfigLoad(configFile).ok
    /\ daemon' = [daemon EXCEPT ![d] = Exited("error")]
    /\ UNCHANGED << pidFile, sockFile, notDaemon >>

\* the configuration loads, the watcher is built and the watches registered
RunLoaded(d, failed) ==
    LET r == ConfigLoad(configFile)
    IN  /\ daemon[d].pc = "load"
        /\ r.ok
        /\ failed \in SUBSET (1..r.config.watches)
        /\ daemon' = [daemon EXCEPT
                        ![d].pc = "loop",
                        ![d].config = r.config,
                        ![d].loaded = r.config,
                        ![d].watcher = RegisterWatches(WatcherNew(r.config), r.config, failed)]
        /\ UNCHANGED << pidFile, sockFile, notDaemon >>

\* one iteration's ghosts are dropped by the next one
Fresh(dmd) ==
    [dmd EXCEPT !.served = None, !.reloaded = None, !.ticked = None, !.asked = FALSE,
                !.hup = "none"]

\* select!: sigterm.recv() => break
LoopSigterm(d) ==
    /\ daemon[d].pc = "loop"
    /\ "SIGTERM" \in daemon[d].sigs
    /\ daemon' = [daemon EXCEPT ![d] = [Fresh(@) EXCEPT !.sigs = @ \ { "SIGTERM" },
                                                        !.pc = "cleanup_pid",
                                                        !.why = "sigterm"]]
    /\ UNCHANGED << pidFile, sockFile, notDaemon >>

\* select!: sigint.recv() => break
LoopSigint(d) ==
    /\ daemon[d].pc = "loop"
    /\ "SIGINT" \in daemon[d].sigs
    /\ daemon' = [daemon EXCEPT ![d] = [Fresh(@) EXCEPT !.sigs = @ \ { "SIGINT" },
                                                        !.pc = "cleanup_pid",
                                                        !.why = "sigint"]]
    /\ UNCHANGED << pidFile, sockFile, notDaemon >>

\* a reload that gives the engine the new rules and keeps the directories
\* and filters of the old watcher
ReloadKeepsFilters(dmd, file, watcherOk, failed) ==
    LET r == ConfigLoad(file)
    IN  IF ~ r.ok THEN [dmd EXCEPT !.hup = "load_failed"]
        ELSE IF ~ watcherOk THEN [dmd EXCEPT !.config = r.config, !.hup = "watcher_failed"]
        ELSE [dmd EXCEPT !.config = r.config,
                         !.hup = "reloaded",
                         !.watcher.rules = r.config.rules,
                         !.reloaded = Some(dmd.watcher.files_processed),
                         !.loaded = r.config,
                         !.swapped = TRUE]

\* a reload that falls back to Config::default() when the file does not load
ReloadDefaultsOnError(dmd, file, watcherOk, failed) ==
    LET r == ConfigLoad(file)
    IN  IF ~ r.ok THEN [dmd EXCEPT !.config = r.config, !.hup = "load_failed"]
        ELSE IF ~ watcherOk THEN [dmd EXCEPT !.config = r.config, !.hup = "watcher_failed"]
        ELSE [dmd EXCEPT !.config = r.config,
                         !.hup = "reloaded",
                         !.watcher = RegisterWatches(WatcherNew(r.config), r.config, failed),
                         !.reloaded = Some(dmd.watcher.files_processed),
                         !.loaded = r.config,
                         !.swapped = TRUE]

\* the body of the sighup branch, on the daemon's record: a file that does
\* not load leaves everything as it is; otherwise the configuration is
\* replaced as soon as it loads, and the watcher is replaced by a new one
\* (counter at zero) when Watcher::new succeeds
Reload(dmd, file, watcherOk, failed) ==
    LET r == ConfigLoad(file)
    IN  IF ~ r.ok THEN [dmd EXCEPT !.hup = "load_failed"]
        ELSE IF ~ watcherOk THEN [dmd EXCEPT !.config = r.config, !.hup = "watcher_failed"]
        ELSE [dmd EXCEPT !.config = r.config,
                         !.hup = "reloaded",
                         !.watcher = RegisterWatches(WatcherNew(r.config), r.config, failed),
                         !.reloaded = Some(dmd.watcher.files_processed),
                         !.loaded = r.config,
                         !.swapped = TRUE]

\* select!: sighup.recv() => reload
LoopSighup(d, watcherOk, failed) ==
    /\ daemon[d].pc = "loop"
    /\ "SIGHUP" \in daemon[d].sigs
    /\ failed \in SUBSET (1..ConfigLoad(configFile).config.watches)
    /\ daemon' = [daemon EXCEPT ![d] = Reload([Fresh(@) EXCEPT !.sigs = @ \ { "SIGHUP" },
                                                               !.asked = daemon[d].asked],
                                              configFile, watcherOk, failed)]
    /\ UNCHANGED << pidFile, sockFile, notDaemon >>

\* select!: poll_interval.tick() => watcher.process_events(), which
\* processes n files of the registered directories
LoopTick(d, n) ==
    /\ daemon[d].pc = "loop"
    /\ n > 0 => daemon[d].watcher.registered > 0
    /\ daemon[d].watcher.files_processed + n <= MaxFiles
    /\ daemon' = [daemon EXCEPT ![d] =
                     [Fresh(@) EXCEPT !.watcher.files_processed = @ + n,
                                      !.ticked =
                                          IF n = 0 THEN None
                                          ELSE Some([rules |-> daemon[d].watcher.rules,
                                                     watch_rules |-> daemon[d].watcher.watch_rules,
                                                     events |-> n])]]
    /\ UNCHANGED << pidFile, sockFile, notDaemon >>

\* a scan thread of the current watcher processes a file
ScanFile(d) ==
    /\ HasWatcher(d)
    /\ daemon[d].watcher.scanning > 0
    /\ daemon[d].watcher.files_processed < MaxFiles
    /\ daemon' = [daemon EXCEPT ![d].watcher.files_processed = @ + 1,
                                ![d].reloaded = None]
    /\ UNCHANGED << pidFile, sockFile, notDaemon >>

\* a scan thread of the current watcher ends
ScanEnd(d) ==
    /\ HasWatcher(d)
    /\ daemon[d].watcher.scanning > 0
    /\ daemon' = [daemon EXCEPT ![d].watcher.scanning = @ - 1]
    /\ UNCHANGED << pidFile, sockFile, notDaemon >>

\* remove_pid_file() after the loop
CleanupPid(d) ==
    /\ daemon[d].pc = "cleanup_pid"
    /\ pidFile' = remove_pid_file(pidFile)
    /\ daemon' = [daemon EXCEPT ![d].pc = "cleanup_sock"]
    /\ UNCHANGED << sockFile, notDaemon >>

\* let _ = remove_file(&sock_path), and run_daemon returns
CleanupSock(d) ==
    /\ daemon[d].pc = "cleanup_sock"
    /\ sockFile' = remove_socket(sockFile)
    /\ daemon' = [daemon EXCEPT ![d] = Exited(daemon[d].why)]
    /\ UNCHANGED << pidFile, notDaemon >>

(***************************************************************************)
(* The control socket: the accept branch of the run loop (daemon.rs) and   *)
(* its clients (ipc/mod.rs).                                               *)
(***************************************************************************)
\* the request lines a client may write: the five commands as serde_json
\* writes them, text that is no command, and bytes that are not UTF-8
Texts ==
    { "{\"type\":\"status\"}", "{\"type\":\"reload\"}", "{\"type\":\"stop\"}",
      "{\"type\":\"get_log\",\"limit\":5}", "{\"type\":\"get_stats\"}",
      "{\"type\":\"get_log\"}", "stop" }

Lines == { [utf8 |-> TRUE, text |-> t] : t \in Texts } \cup { [utf8 |-> FALSE, text |-> "\\xff"] }

\* serde_json::from_str::<DaemonCommand>: the command, or None for an error
ParseCommand(text) ==
    CASE text = "{\"type\":\"status\"}" -> Some("Status")
      [] text = "{\"type\":\"reload\"}" -> Some("Reload")
      [] text = "{\"type\":\"stop\"}" -> Some("Stop")
      [] text = "{\"type\":\"get_log\",\"limit\":5}" -> Some("GetLog")
      [] text = "{\"type\":\"get_stats\"}" -> Some("GetStats")
      [] OTHER -> None

\* DaemonResponse
Response(type, w, r, f) == [type |-> type, watches |-> w, rules |-> r, files_processed |-> f]

ResponseOk == Response("ok", 0, 0, 0)

ResponseLog == Response("log", 0, 0, 0)

ResponseError == Response("error", 0, 0, 0)

\* the arms of the match on the command that fall through to the write
Respond(cmd, dmd) ==
    CASE cmd \in { "Status", "GetStats" } ->
             Response("status", dmd.config.watches, dmd.config.rules,
                      dmd.watcher.files_processed)
      [] cmd = "Reload" -> ResponseOk
      [] cmd = "GetLog" -> ResponseLog

\* the connection is dropped with these responses written on it, and the
\* loop goes on
Answer(dmd, line, resps) ==
    [dmd EXCEPT !.pc = "loop", !.stream = None,
                !.served = Some([line |-> line, resp |-> resps])]

\* a variant of the Stop arm that breaks without writing
StopArmSilent(dmd, line) ==
    [dmd EXCEPT !.pc = "stop_break", !.stream = None,
                !.served = Some([line |-> line, resp |-> << >>])]

\* the Stop arm up to its break: Ok is written and flushed
StopArm(dmd, line) ==
    [dmd EXCEPT !.pc = "stop_break", !.stream = None,
                !.served = Some([line |-> line, resp |-> << ResponseOk >>])]

\* a variant whose Reload arm answers Ok without signalling itself
ServeReloadUnsignalled(dmd, line) ==
    IF ~ line.utf8 THEN Answer(dmd, line, << >>)
    ELSE LET cmd == ParseCommand(line.text)
         IN  IF ~ IsSome(cmd) THEN Answer(dmd, line, << ResponseError >>)
             ELSE IF Unwrap(cmd) = "Stop" THEN StopArm(dmd, line)
             ELSE IF Unwrap(cmd) = "Reload"
                  THEN [Answer(dmd, line, << Respond("Reload", dmd) >>)
                          EXCEPT !.asked = TRUE]
             ELSE Answer(dmd, line, << Respond(Unwrap(cmd), dmd) >>)

\* if let Ok(Some(line)) = lines.next_line().await { .. }: next_line is an
\* error for bytes that are not UTF-8, and then nothing is written; the
\* Reload arm sends SIGHUP to the daemon itself before it answers
Serve(dmd, line) ==
    IF ~ line.utf8 THEN Answer(dmd, line, << >>)
    ELSE LET cmd == ParseCommand(line.text)
         IN  IF ~ IsSome(cmd) THEN Answer(dmd, line, << ResponseError >>)
             ELSE IF Unwrap(cmd) = "Stop" THEN StopArm(dmd, line)
             ELSE IF Unwrap(cmd) = "Reload"
                  THEN [Answer(dmd, line, << Respond("Reload", dmd) >>)
                          EXCEPT !.sigs = @ \cup { "SIGHUP" }, !.asked = TRUE]
             ELSE Answer(dmd, line, << Respond(Unwrap(cmd), dmd) >>)

\* select!: ipc_listener.accept() => the branch up to next_line().await
LoopAccept(d) ==
    /\ daemon[d].pc = "loop"
    /\ daemon[d].queue # << >>
    /\ daemon' = [daemon EXCEPT ![d] = [Fresh(@) EXCEPT !.pc = "read",
                                                        !.stream = Some(Head(daemon[d].queue)),
                                                        !.queue = Tail(@)]]
    /\ UNCHANGED << pidFile, sockFile, notDaemon >>

\* next_line() returns the line the client wrote, and it is served
ReadLine(d, line) ==
    /\ daemon[d].pc = "read"
    /\ daemon[d].stream = Some("sent")
    /\ daemon' = [daemon EXCEPT ![d] = Serve(@, line)]
    /\ UNCHANGED << pidFile, sockFile, notDaemon >>

\* next_line() returns Ok(None): the client closed without writing
ReadEof(d) ==
    /\ daemon[d].pc = "read"
    /\ daemon[d].stream = Some("eof")
    /\ daemon' = [daemon EXCEPT ![d].pc = "loop", ![d].stream = None]
    /\ UNCHANGED << pidFile, sockFile, notDaemon >>

\* the break of the Stop arm
StopBreak(d) ==
    /\ daemon[d].pc = "stop_break"
    /\ daemon' = [daemon EXCEPT ![d].pc = "cleanup_pid", ![d].why = "stop"]
    /\ UNCHANGED << pidFile, sockFile, notDaemon >>

\* UnixStream::connect(socket_path()): to the listener that bound the path
ClientConnect(d) ==
    /\ sockFile = Some(d)
    /\ Listening(d)
    /\ nconn < MaxConns
    /\ nconn' = nconn + 1
    /\ daemon' = [daemon EXCEPT ![d].queue = Append(@, "unsent")]
    /\ UNCHANGED << pidFile, sockFile, configFile, cli, engineVars, handlerVars, watcherVars >>

\* the connections of a daemon: 0 is the accepted one, k > 0 the k-th queued
ConnState(d, k) ==
    IF k = 0 THEN daemon[d].stream
    ELSE IF k <= Len(daemon[d].queue) THEN Some(daemon[d].queue[k])
    ELSE None

SetConnState(d, k, st) ==
    IF k = 0 THEN [daemon EXCEPT ![d].stream = Some(st)]
    ELSE [daemon EXCEPT ![d].queue[k] = st]

\* a connected client writes its request line
ClientSend(d, k) ==
    /\ ConnState(d, k) = Some("unsent")
    /\ daemon' = SetConnState(d, k, "sent")
    /\ UNCHANGED << pidFile, sockFile, notDaemon >>

\* a connected client closes the connection without writing
ClientClose(d, k) ==
    /\ ConnState(d, k) = Some("unsent")
    /\ daemon' = SetConnState(d, k, "eof")
    /\ UNCHANGED << pidFile, sockFile, notDaemon >>

\* someone signals the daemon (kill, or Ctrl-C in its terminal)
EnvSignal(d, sig) ==
    /\ Alive(d)
    /\ sig \notin daemon[d].sigs
    /\ daemon' = Kill(daemon, d, sig)
    /\ UNCHANGED << pidFile, sockFile, notDaemon >>

\* someone edits the configuration file
EditConfig(f) ==
    /\ f # configFile
    /\ configFile' = f
    /\ UNCHANGED << daemon, pidFile, sockFile, nconn, cli, engineVars, handlerVars, watcherVars >>

(***************************************************************************)
(* The lifecycle commands: start, stop, restart, status, reload            *)
(* (daemon.rs, run), one command at a time from one shell.                 *)
(***************************************************************************)
StopPolls == 50

Commands == { "start", "stop", "restart", "status", "reload" }

NoStatus == [running |-> FALSE, pid |-> None]

NoPrev == [cmd |-> "none", spawned |-> None, fresh |-> FALSE, path |-> "none"]

\* no command is running and none has run: cmd is the command, doing the
\* function it is in (restart is stop_daemon, then start_daemon), status
\* what get_status returned, polls the liveness polls done by stop_daemon,
\* spawned the child of start_daemon; and, to state the claims: fresh (no PID
\* file existed when the command began), path (how stop_daemon returned),
\* left (the PID file when the command returned), up (the daemons that were
\* running and had not yet removed the PID file when get_status looked),
\* had (the PID file when get_status looked), alive (the processes that were
\* running then), sent (the signals stop_daemon has sent, in order), sawDead
\* (a liveness poll of stop_daemon found the process gone), prev (the
\* command before)
NoCli ==
    [cmd |-> "none", doing |-> "none", pc |-> "idle", status |-> NoStatus, polls |-> 0,
     spawned |-> None, fresh |-> FALSE, path |-> "none", left |-> None, up |-> {},
     had |-> None, alive |-> {}, sent |-> << >>, sawDead |-> FALSE, prev |-> NoPrev]

\* the daemons that are running and have not removed the PID file on exit
Up(dm) == { d \in Pids : ProcessRunning(dm, d) /\ dm[d].pc # "cleanup_sock" }

\* the function returns with the PID file as pf: restart goes on from
\* stop_daemon to start_daemon, any other command is over
Return(c, pf) ==
    IF c.cmd = "restart" /\ c.doing = "stop"
    THEN [c EXCEPT !.doing = "start", !.pc = "get_status", !.left = pf]
    ELSE [c EXCEPT !.pc = "done", !.left = pf]

\* the variables the commands never touch
notCli == << engineVars, handlerVars, watcherVars, sockFile, configFile, nconn >>

\* the shell runs a command; the model has pids for MaxPid daemons
CliBegin(c) ==
    /\ cli.pc \in { "idle", "done" }
    /\ c \in { "start", "restart" } => \E d \in Pids : daemon[d].pc = "none"
    /\ cli' = [NoCli EXCEPT !.cmd = c,
                            !.doing = IF c = "restart" THEN "stop" ELSE c,
                            !.pc = "get_status",
                            !.fresh = ~ IsSome(pidFile),
                            !.prev = [cmd |-> cli.cmd, spawned |-> cli.spawned,
                                      fresh |-> cli.fresh, path |-> cli.path]]
    /\ UNCHANGED << daemon, pidFile, notCli >>

\* let (running, pid) = get_status(), and the branch on running that
\* follows it in start_daemon, stop_daemon, show_status and reload_config
CliGetStatus ==
    LET r == get_status(pidFile, daemon)
        c == [cli EXCEPT !.status = [running |-> r.running, pid |-> r.pid],
                         !.up = Up(daemon),
                         !.had = pidFile,
                         !.alive = { d \in Pids : ProcessRunning(daemon, d) }]
    IN  /\ cli.pc = "get_status"
        /\ pidFile' = r.pidFile
        /\ cli' = CASE cli.doing = "start" ->
                           IF r.running THEN Return(c, r.pidFile)
                           ELSE [c EXCEPT !.pc = "spawn"]
                    [] cli.doing = "stop" ->
                           IF r.running THEN [c EXCEPT !.pc = "term"]
                           ELSE Return([c EXCEPT !.path = "not_running"], r.pidFile)
                    [] cli.doing = "reload" ->
                           IF r.running THEN [c EXCEPT !.pc = "hup"]
                           ELSE Return(c, r.pidFile)
                    [] cli.doing = "status" -> Return(c, r.pidFile)
        /\ UNCHANGED << daemon, notCli >>

\* cmd.spawn(): the child runs hazelnut run under the next free pid
CliSpawn(d) ==
    /\ cli.pc = "spawn"
    /\ daemon[d].pc = "none"
    /\ \A e \in Pids : e < d => daemon[e].pc # "none"
    /\ daemon' = [daemon EXCEPT ![d] = Spawned]
    /\ cli' = [cli EXCEPT !.pc = "write_pid", !.spawned = Some(d)]
    /\ UNCHANGED << pidFile, notCli >>

\* write_pid(child.id()), and start_daemon returns
CliWritePid ==
    /\ cli.pc = "write_pid"
    /\ pidFile' = write_pid(pidFile, Unwrap(cli.spawned))
    /\ cli' = Return(cli, pidFile')
    /\ UNCHANGED << daemon, notCli >>

\* send_signal(pid, SIGTERM): on failure the PID file is removed and
\* stop_daemon returns
CliTerm ==
    LET t == Unwrap(cli.status.pid)
    IN  /\ cli.pc = "term"
        /\ IF SendSignal(daemon, t, "SIGTERM")
           THEN /\ daemon' = Kill(daemon, t, "SIGTERM")
                /\ pidFile' = pidFile
                /\ cli' = [cli EXCEPT !.pc = "poll", !.sent = Append(@, "SIGTERM")]
           ELSE /\ daemon' = daemon
                /\ pidFile' = remove_pid_file(pidFile)
                /\ cli' = Return([cli EXCEPT !.path = "unsent"], pidFile')
        /\ UNCHANGED notCli

\* one round of for _ in 0..50: the process is gone, so the PID file is
\* removed and stop_daemon returns, or it is there and stop sleeps 100 ms
CliPoll ==
    LET t == Unwrap(cli.status.pid)
    IN  /\ cli.pc = "poll"
        /\ cli.polls < StopPolls
        /\ IF ~ ProcessRunning(daemon, t)
           THEN /\ pidFile' = remove_pid_file(pidFile)
                /\ cli' = Return([cli EXCEPT !.path = "exited", !.sawDead = TRUE], pidFile')
           ELSE /\ pidFile' = pidFile
                /\ cli' = [cli EXCEPT !.polls = @ + 1]
        /\ UNCHANGED << daemon, notCli >>

\* a loop that gives up one poll early
CliKillEarly ==
    LET t == Unwrap(cli.status.pid)
    IN  /\ cli.pc = "poll"
        /\ cli.polls = StopPolls - 1
        /\ daemon' = Kill(daemon, t, "SIGKILL")
        /\ cli' = [cli EXCEPT !.pc = "kill_rm", !.sent = Append(@, "SIGKILL")]
        /\ UNCHANGED << pidFile, notCli >>

\* the loop is over: send_signal(pid, SIGKILL), and stop sleeps 100 ms
CliKill ==
    LET t == Unwrap(cli.status.pid)
    IN  /\ cli.pc = "poll"
        /\ cli.polls = StopPolls
        /\ daemon' = Kill(daemon, t, "SIGKILL")
        /\ cli' = [cli EXCEPT !.pc = "kill_rm", !.sent = Append(@, "SIGKILL")]
        /\ UNCHANGED << pidFile, notCli >>

\* remove_pid_file() after the kill, and stop_daemon returns
CliKillRemove ==
    /\ cli.pc = "kill_rm"
    /\ pidFile' = remove_pid_file(pidFile)
    /\ cli' = Return([cli EXCEPT !.path = "killed"], pidFile')
    /\ UNCHANGED << daemon, notCli >>

\* send_signal(pid, SIGHUP), and reload_config returns
CliHup ==
    /\ cli.pc = "hup"
    /\ daemon' = Kill(daemon, Unwrap(cli.status.pid), "SIGHUP")
    /\ cli' = Return(cli, pidFile)
    /\ UNCHANGED << pidFile, notCli >>

(***************************************************************************)
(* Action::execute (rules/action.rs) on a file system with contents: the   *)
(* Move and Delete arms, one file-system call at a time.                   *)
(***************************************************************************)
\* the destination directory of the Move actions, and the paths under it
Destinations == { "/out" }
FsPaths == Paths \cup { "/out", "/out/report.PDF", "/out/.notes.txt" }

\* dest.join(path.file_name()) with dest = "/out"
DestPath(dest, p) ==
    CASE p = "/in/report.PDF" -> "/out/report.PDF"
      [] p = "/in/.notes.txt" -> "/out/.notes.txt"

File(c) == [exists |-> TRUE, size |-> 1, age |-> 0, dir |-> FALSE, content |-> c]
Dir == [exists |-> TRUE, size |-> 0, age |-> 0, dir |-> TRUE, content |-> ""]
Gone == [exists |-> FALSE, size |-> 0, age |-> 0, dir |-> FALSE, content |-> ""]

\* Action::Move { destination, create_destination, overwrite }, Action::Delete
MoveActions ==
    [ kind : { "Move" }, destination : Destinations,
      create_destination : BOOLEAN, overwrite : BOOLEAN ]
DeleteAction ==
    [kind |-> "Delete", destination |-> "", create_destination |-> FALSE, overwrite |-> FALSE]
Actions == MoveActions \cup { DeleteAction }

\* what a file-system call may be made to do from outside: work as the file
\* system allows ("none"), fail (permission, another file system, no space),
\* or, for a copy, fail after part of the destination was written
Faults == { "none", "fail", "partial" }

\* the result of execute: Ok(()), an io::Error of kind NotFound, another
\* io::Error, or an error that is no io::Error (bail!, context on an Option)
Results == { "Ok", "NotFound", "OtherIo", "Bail" }

\* no execute call: action and path of the call, where it is (pc), what it
\* returned, and, to state the claims, the file system when it was called
\* and the calls that were made to fail from outside
NoExec ==
    [pc |-> "idle", action |-> DeleteAction, path |-> "", result |-> "none",
     before |-> << >>, faults |-> {}]

\* execute(&self, path) is entered: the first call of the arm is next
Entered(a, p, d) ==
    [pc |-> IF a.kind = "Delete" THEN "delete"
            ELSE IF a.create_destination THEN "create_dir" ELSE "exists",
     action |-> a, path |-> p, result |-> "none", before |-> d, faults |-> {}]

Returned(e, r) == [e EXCEPT !.pc = "done", !.result = r]

\* a fallback that removes the source whether or not the copy worked
CopyThenRemoveAnyway(e, d, fault) ==
    LET src == e.path
        dst == DestPath(e.action.destination, e.path)
    IN  IF ~ d[src].exists \/ ~ d[e.action.destination].exists \/ fault # "none"
        THEN [exec |-> [e EXCEPT !.pc = "remove"], disk |-> d]
        ELSE [exec |-> [e EXCEPT !.pc = "remove"],
              disk |-> [d EXCEPT ![dst] = File(d[src].content)]]

\* std::fs::copy(path, &dest_path)?, the first call of the fallback
Copy(e, d, fault) ==
    LET src == e.path
        dst == DestPath(e.action.destination, e.path)
    IN  IF ~ d[src].exists \/ ~ d[e.action.destination].exists
        THEN [exec |-> Returned(e, "NotFound"), disk |-> d]
        ELSE IF fault = "fail"
        THEN [exec |-> Returned(e, "OtherIo"), disk |-> d]
        ELSE IF fault = "partial"
        THEN [exec |-> Returned(e, "OtherIo"),
              disk |-> [d EXCEPT ![dst] = File("partial")]]
        ELSE [exec |-> [e EXCEPT !.pc = "remove"],
              disk |-> [d EXCEPT ![dst] = File(d[src].content)]]

\* an existence check that lets every move through
ExistsCheckOff(e, d) ==
    [exec |-> [e EXCEPT !.pc = "rename"], disk |-> d]

\* if dest_path.exists() && !overwrite { bail!(..) }
ExistsCheck(e, d) ==
    IF d[DestPath(e.action.destination, e.path)].exists /\ ~ e.action.overwrite
    THEN [exec |-> Returned(e, "Bail"), disk |-> d]
    ELSE [exec |-> [e EXCEPT !.pc = "rename"], disk |-> d]

\* one file-system call of execute, and what follows it up to the next
\* call: the call and the file system afterwards
ExecStep(e, d, fault) ==
    LET a == e.action
        src == e.path
        dst == DestPath(a.destination, e.path)
    IN  CASE e.pc = "create_dir" ->
                 \* create_dir_all(&dest).with_context(..)?
                 IF fault # "none" THEN [exec |-> Returned(e, "OtherIo"), disk |-> d]
                 ELSE [exec |-> [e EXCEPT !.pc = "exists"],
                       disk |-> [d EXCEPT ![a.destination] = Dir]]
          [] e.pc = "exists" -> ExistsCheck(e, d)
          [] e.pc = "rename" ->
                 \* if std::fs::rename(path, &dest_path).is_err() { fallback }
                 IF ~ d[src].exists \/ ~ d[a.destination].exists \/ fault # "none"
                 THEN [exec |-> [e EXCEPT !.pc = "copy"], disk |-> d]
                 ELSE [exec |-> Returned(e, "Ok"),
                       disk |-> [d EXCEPT ![dst] = File(d[src].content), ![src] = Gone]]
          [] e.pc = "copy" -> Copy(e, d, fault)
          [] e.pc = "remove" ->
                 \* std::fs::remove_file(path).with_context(..)?
                 IF ~ d[src].exists THEN [exec |-> Returned(e, "NotFound"), disk |-> d]
                 ELSE IF fault # "none" THEN [exec |-> Returned(e, "OtherIo"), disk |-> d]
                 ELSE [exec |-> Returned(e, "Ok"), disk |-> [d EXCEPT ![src] = Gone]]
          [] e.pc = "delete" ->
                 \* Action::Delete: std::fs::remove_file(path)?
                 IF ~ d[src].exists THEN [exec |-> Returned(e, "NotFound"), disk |-> d]
                 ELSE IF fault # "none" THEN [exec |-> Returned(e, "OtherIo"), disk |-> d]
                 ELSE [exec |-> Returned(e, "Ok"), disk |-> [d EXCEPT ![src] = Gone]]

\* the calls that can be made to fail, and the one that can fail half-way
Faultable(pc, fault) ==
    /\ fault = "partial" => pc = "copy"
    /\ fault # "none" => pc \in { "create_dir", "rename", "copy", "remove", "delete" }

\* the file systems the executor starts on: both source files with their
\* contents, the destination directory there or not, and in it a file of
\* the same name as the first source or not
ExecDisks ==
    { [p \in FsPaths |->
          CASE p = "/in/report.PDF"  -> File("report")
            [] p = "/in/.notes.txt"  -> File("notes")
            [] p = "/out"            -> IF out THEN Dir ELSE Gone
            [] p = "/out/report.PDF" -> IF out /\ taken THEN File("old") ELSE Gone
            [] OTHER                 -> Gone] :
      out \in BOOLEAN, taken \in BOOLEAN }

\* no action is being executed
WatcherIdle ==
    /\ exec = NoExec
    /\ pass = << >>
    /\ watches = << >>
    /\ scans = << >>
    /\ app = << >>

ExecInit ==
    /\ disk \in ExecDisks
    /\ exec = NoExec
    /\ rules = << >>
    /\ call = NoCall
    /\ pass = << >>
    /\ watches = << >>
    /\ scans = << >>
    /\ app = << >>

\* a caller runs action.execute(path)
ExecuteBegin(a, p) ==
    /\ exec.pc \in { "idle", "done" }
    /\ exec' = Entered(a, p, disk)
    /\ UNCHANGED << rules, disk, call, pass, watches, scans, app, handlerVars, daemonVars >>

\* the next file-system call of the execute in progress
ExecuteStep(fault) ==
    LET n == ExecStep(exec, disk, fault)
    IN  /\ exec.pc \notin { "idle", "done" }
        /\ Faultable(exec.pc, fault)
        /\ exec' = [n.exec EXCEPT !.faults = IF fault = "none" THEN exec.faults
                                             ELSE exec.faults \cup { exec.pc }]
        /\ disk' = n.disk
        /\ UNCHANGED << rules, call, pass, watches, scans, app, handlerVars, daemonVars >>

ExecNext ==
    \/ \E a \in Actions, p \in Paths : ExecuteBegin(a, p)
    \/ \E fault \in Faults : ExecuteStep(fault)

(***************************************************************************)
(* Watcher: one pass of process_polled_events over a batch of events, or   *)
(* of scan_existing_background over a directory (watcher/mod.rs), on the   *)
(* watched directory /in.                                                  *)
(***************************************************************************)
MaxEvents == 2

\* notify::EventKind, as far as the watcher tells the kinds apart
EventKinds == { "Create", "Modify", "Remove" }

\* the calls of execute that the pass lets fail from outside, together: none,
\* the rename alone (the fallback is taken), the rename and then the copy or
\* the remove, the remove_file of Delete
FaultSets ==
    { {}, { "rename" }, { "rename", "copy" }, { "rename", "remove" }, { "delete" } }

\* Action::execute from the call e to its return, on the file system d, the
\* calls in faults failing
RECURSIVE ExecRun(_, _, _)
ExecRun(e, d, faults) ==
    IF e.pc = "done" THEN [exec |-> e, disk |-> d]
    ELSE LET n == ExecStep(e, d, IF e.pc \in faults THEN "fail" ELSE "none")
         IN  ExecRun(n.exec, n.disk, faults)

\* action.execute(path): what it returns and the file system afterwards
execute(a, p, d, faults) ==
    LET r == ExecRun(Entered(a, p, d), d, faults)
    IN  [result |-> r.exec.result, disk |-> r.disk]

\* the engines of the watcher: a rule that moves the pdf files without
\* overwriting, then a rule that deletes whatever matches its condition
WatcherEngines ==
    { << [name |-> "pdfs", enabled |-> TRUE,
          condition |-> [EmptyCondition EXCEPT !.extension = Some("pdf")],
          action |-> m],
         [name |-> "logs", enabled |-> TRUE, condition |-> c, action |-> DeleteAction] >> :
      m \in { a \in MoveActions : ~ a.overwrite },
      c \in { EmptyCondition, [EmptyCondition EXCEPT !.name_matches = Some("[bad")] } }

\* the rule names a watch entry may list: none, or the first rule only
Filters == { << >>, << "pdfs" >> }

\* the rule names the watch entry of /in may list: also the second rule only
PassFilters == Filters \cup { << "logs" >> }

\* find_matching_rule_name, from rule i on: the name of the first enabled
\* rule whose condition matches the path (an error counts as no match),
\* "unknown" when there is none
RECURSIVE FindMatchingFrom(_, _, _, _)
FindMatchingFrom(rs, i, p, d) ==
    IF i > Len(rs) THEN "unknown"
    ELSE IF rs[i].enabled /\ Matches(rs[i].condition, p, d) = OkBool(TRUE) THEN rs[i].name
    ELSE FindMatchingFrom(rs, i + 1, p, d)

find_matching_rule_name(rs, p, d) == FindMatchingFrom(rs, 1, p, d)

\* allowed_rules_for: the list of the watch directory, None when it is empty
allowed_rules_for(filter) == IF filter = << >> THEN None ELSE Some(filter)

\* no pass is running.  mode is the function running, pc where it is, events
\* the events of the batch taken so far, todo the paths still to process
\* (of the event, or of the directory listing), action what evaluate chose
\* for the first of them, processed and scanned the local counts, filter
\* the watch entry of /in, files_processed the shared counter.  To state
\* the claims: start (the counter when the pass began), due (the paths
\* handed to the loop), outcomes (what happened to each path, in order, and
\* whether the file existed when its action ran), reports (the error!
\* lines and the notifications of this pass, by path), notified (the calls
\* of notify_rule_error: the rule name given, the path, and the action that
\* had been executed, if any), driver (the loop that runs the polling cycle),
\* cleanups (the calls of event_handler.cleanup() from the watcher in this
\* cycle), ignored (the events of this batch that went to the `_` arm)
NoPass ==
    [mode |-> "none", pc |-> "idle", events |-> 0, todo |-> << >>, action |-> None,
     processed |-> 0, scanned |-> 0, filter |-> << >>, files_processed |-> 0,
     start |-> 0, due |-> << >>, outcomes |-> << >>, reports |-> {},
     notified |-> << >>, driver |-> "none", cleanups |-> 0, ignored |-> 0]

\* the loops that drive the watcher: the poll tick of run_daemon, which calls
\* process_events, and the loop of run_app with its embedded watcher, which
\* calls poll and then process_polled_events if there are events
Drivers == { "daemon", "app" }

\* the errors that are reported: an io::Error that is not NotFound, and an
\* error that is no io::Error (bail!, a pattern that does not compile)
Reported == { "OtherIo", "Bail", "EvalErr" }

\* a match on the result that gives up the pass at the first reported error
SettleAndStop(ps, outcome, existed) ==
    LET p == Head(ps.todo)
        rest == IF outcome \in Reported THEN << >> ELSE Tail(ps.todo)
    IN  [ps EXCEPT
           !.processed = IF outcome = "Ok" THEN @ + 1 ELSE @,
           !.reports = IF outcome \in Reported
                       THEN @ \cup { [sink |-> "log", path |-> p] }
                       ELSE @,
           !.todo = rest,
           !.action = None,
           !.pc = IF rest # << >> THEN "paths"
                  ELSE IF ps.mode = "poll" THEN "events" ELSE "end",
           !.outcomes = Append(@, [path |-> p, outcome |-> outcome, existed |-> existed])]

\* a match on the result that counts every path it was given
SettleCountingAll(ps, outcome, existed) ==
    LET p == Head(ps.todo)
        rest == Tail(ps.todo)
    IN  [ps EXCEPT
           !.processed = @ + 1,
           !.reports = IF outcome \in Reported
                       THEN @ \cup { [sink |-> "log", path |-> p] }
                       ELSE @,
           !.todo = rest,
           !.action = None,
           !.pc = IF rest # << >> THEN "paths"
                  ELSE IF ps.mode = "poll" THEN "events" ELSE "end",
           !.outcomes = Append(@, [path |-> p, outcome |-> outcome, existed |-> existed])]

\* the match on what process_filtered returned for the first path of todo,
\* and the step to the next path: Ok(true) is counted, Ok(false) is not, a
\* NotFound io::Error is skipped with a debug! line, any other error gets an
\* error! line and, in the poll loop, notify_rule_error
Settle(ps, outcome, existed) ==
    LET p == Head(ps.todo)
        rest == Tail(ps.todo)
    IN  [ps EXCEPT
           !.processed = IF outcome = "Ok" THEN @ + 1 ELSE @,
           !.reports = IF outcome \in Reported
                       THEN @ \cup { [sink |-> "log", path |-> p] }
                              \cup IF ps.mode = "poll"
                                   THEN { [sink |-> "notify", path |-> p] } ELSE {}
                       ELSE @,
           !.todo = rest,
           !.action = None,
           !.pc = IF rest # << >> THEN "paths"
                  ELSE IF ps.mode = "poll" THEN "events" ELSE "end",
           !.outcomes = Append(@, [path |-> p, outcome |-> outcome, existed |-> existed])]

\* the Err arm of the poll loop, after the error! line: the rule name comes
\* from find_matching_rule_name on the file system as the action left it
Notified(settled, ps, outcome, name) ==
    IF outcome \in Reported /\ ps.mode = "poll"
    THEN [settled EXCEPT !.notified = Append(@, [rule_name |-> name,
                                                 path |-> Head(ps.todo),
                                                 action |-> ps.action])]
    ELSE settled

\* a pass begins with the counter and the watch entry it finds
Begun(ps, mode) ==
    [NoPass EXCEPT !.mode = mode, !.filter = ps.filter,
                   !.files_processed = ps.files_processed,
                   !.start = ps.files_processed]

\* Watcher::new and watch_with_rules for /in: an engine, a debounce window of
\* no length (debounce_seconds = 0: only a sighting at the same instant is
\* debounced), a watch entry, the counter at zero
WatcherInit ==
    /\ rules \in WatcherEngines
    /\ disk \in ExecDisks
    /\ call = NoCall
    /\ exec = NoExec
    /\ pass \in { [NoPass EXCEPT !.filter = f] : f \in PassFilters }
    /\ watches = << >>
    /\ scans = << >>
    /\ app = << >>
    /\ recent = NoneSeen
    /\ debounce = 0
    /\ now = 0
    /\ seen = [last |-> NoHandlerCall, returnedAt |-> NoneSeen, suppressed |-> {}]

notPass == << rules, call, exec, watches, scans, app, debounce, now, seen, daemonVars >>

\* a polling cycle of a driver in which process_polled_events(events) is
\* entered: any cycle of the daemon, a cycle of the front end in which poll
\* returned events
PollBegin(driver) ==
    /\ pass.pc \in { "idle", "done" }
    /\ pass' = [Begun(pass, "poll") EXCEPT !.pc = "events", !.driver = driver]
    /\ UNCHANGED << disk, recent, notPass >>

\* a polling cycle of the front end in which poll returned no events:
\* process_polled_events is not called
IdleCycle ==
    /\ pass.pc \in { "idle", "done" }
    /\ pass' = [Begun(pass, "poll") EXCEPT !.pc = "done", !.driver = "app"]
    /\ UNCHANGED << disk, recent, notPass >>

\* a match on event.kind that lets every kind into the first arm
PollEventAnyKind(kind, paths) ==
    LET r == should_process(recent, paths, now, debounce)
    IN  /\ pass.mode = "poll" /\ pass.pc = "events"
        /\ pass.events < MaxEvents
        /\ recent' = r.recent
        /\ pass' = [pass EXCEPT !.events = @ + 1,
                                !.todo = r.out,
                                !.due = @ \o r.out,
                                !.pc = IF r.out = << >> THEN "events" ELSE "paths",
                                !.ignored = IF kind \in { "Create", "Modify" }
                                            THEN @ ELSE @ + 1]
        /\ UNCHANGED << disk, notPass >>

\* for event in events: an event of another kind is ignored, the paths of a
\* Create or Modify event go through should_process
PollEvent(kind, paths) ==
    LET r == should_process(recent, paths, now, debounce)
    IN  /\ pass.mode = "poll" /\ pass.pc = "events"
        /\ pass.events < MaxEvents
        /\ IF kind \in { "Create", "Modify" }
           THEN /\ recent' = r.recent
                /\ pass' = [pass EXCEPT !.events = @ + 1,
                                        !.todo = r.out,
                                        !.due = @ \o r.out,
                                        !.pc = IF r.out = << >> THEN "events" ELSE "paths"]
           ELSE /\ recent' = recent
                /\ pass' = [pass EXCEPT !.events = @ + 1, !.ignored = @ + 1]
        /\ UNCHANGED << disk, notPass >>

\* the listing of the directory that scan_existing_background iterates on:
\* the files there, in the order of the listing
Listings(d) ==
    { s \in SeqsUpTo(Paths, Cardinality(Paths)) :
          /\ Range(s) = { p \in Paths : d[p].exists }
          /\ Len(s) = Cardinality(Range(s)) }

\* scan_existing_background is entered: read_dir fails and the scan returns
\* after an error! line, or it gives the entries of the directory
ScanBegin(ok, entries) ==
    /\ pass.pc \in { "idle", "done" }
    /\ entries \in Listings(disk)
    /\ pass' = IF ~ ok
               THEN [Begun(pass, "scan") EXCEPT
                        !.pc = "done",
                        !.reports = { [sink |-> "log", path |-> "/in"] }]
               ELSE [Begun(pass, "scan") EXCEPT
                        !.todo = entries,
                        !.due = entries,
                        !.pc = IF entries = << >> THEN "end" ELSE "paths"]
    /\ UNCHANGED << disk, recent, notPass >>

\* the first half of process_filtered for the next path: in the scan, an
\* entry that is no longer a file is passed over; evaluate_filtered returns
\* an error, no action, or the action to execute
PathEvaluate ==
    LET p == Head(pass.todo)
        r == evaluate_filtered(rules, p, allowed_rules_for(pass.filter), disk)
    IN  /\ pass.pc = "paths"
        /\ pass' = IF pass.mode = "scan" /\ ~ disk[p].exists
                   THEN [pass EXCEPT
                           !.todo = Tail(@),
                           !.pc = IF Tail(pass.todo) # << >> THEN "paths" ELSE "end",
                           !.outcomes = Append(@, [path |-> p, outcome |-> "NotAFile",
                                                   existed |-> FALSE])]
                   ELSE LET ps == [pass EXCEPT
                                     !.scanned = IF pass.mode = "scan" THEN @ + 1 ELSE @]
                        IN  IF ~ r.ok
                            THEN Notified(Settle(ps, "EvalErr", disk[p].exists), ps, "EvalErr",
                                          find_matching_rule_name(rules, p, disk))
                            ELSE IF ~ IsSome(r.action)
                            THEN Settle(ps, "NoMatch", disk[p].exists)
                            ELSE [ps EXCEPT !.pc = "execute", !.action = r.action]
        /\ UNCHANGED << disk, recent, notPass >>

\* the second half of process_filtered: action.execute(path)?, and the
\* match on the result
PathExecute(faults) ==
    LET p == Head(pass.todo)
        x == execute(Unwrap(pass.action), p, disk, faults)
    IN  /\ pass.pc = "execute"
        /\ disk' = x.disk
        /\ pass' = Notified(Settle(pass, x.result, disk[p].exists), pass, x.result,
                            find_matching_rule_name(rules, p, x.disk))
        /\ UNCHANGED << recent, notPass >>

\* after the loop of process_polled_events: event_handler.cleanup(), then
\* files_processed.fetch_add(processed)
PollEnd ==
    /\ pass.mode = "poll" /\ pass.pc = "events"
    /\ pass.driver = "app" => pass.events > 0
    /\ recent' = cleanup(recent, now, debounce)
    /\ pass' = [pass EXCEPT !.pc = "done", !.files_processed = @ + pass.processed,
                            !.cleanups = @ + 1]
    /\ UNCHANGED << disk, notPass >>

\* after the loop of the scan: if scanned > 0 { counter.fetch_add(matched) }
ScanFinish ==
    /\ pass.mode = "scan" /\ pass.pc = "end"
    /\ pass' = [pass EXCEPT !.pc = "done",
                            !.files_processed = IF pass.scanned > 0
                                                THEN @ + pass.processed ELSE @]
    /\ UNCHANGED << disk, recent, notPass >>

\* another process removes a file of the watched directory
FileVanishes(p) ==
    /\ disk[p].exists
    /\ disk' = [disk EXCEPT ![p] = Gone]
    /\ UNCHANGED << pass, recent, notPass >>

WatcherNext ==
    \/ \E driver \in Drivers : PollBegin(driver)
    \/ IdleCycle
    \/ \E kind \in EventKinds, paths \in EventPaths : PollEvent(kind, paths)
    \/ \E ok \in BOOLEAN, entries \in SeqsUpTo(Paths, Cardinality(Paths)) : ScanBegin(ok, entries)
    \/ PathEvaluate
    \/ \E faults \in FaultSets : PathExecute(faults)
    \/ PollEnd
    \/ ScanFinish
    \/ \E p \in Paths : FileVanishes(p)

(***************************************************************************)
(* Watcher::watch_with_rules and the registration loop of run_daemon       *)
(* (watcher/mod.rs, daemon.rs): one watch of the configuration at a time.  *)
(***************************************************************************)
MaxWatches == 3

\* the directories a configuration may watch: /in, its subdirectory /in/sub,
\* and /link, a symbolic link to /in/sub
WatchDirs == { "/in", "/in/sub", "/link" }

\* the files that events name: one in /in, one in /in/sub under its own name
\* and under the name it has through the link, one in no watched directory
\* (/inbox has /in as a prefix of its name, not of its path)
WatchedFiles == { "/in/a.txt", "/in/sub/b.txt", "/link/b.txt", "/inbox/c.txt" }

\* std::fs::canonicalize: the path with the link resolved; it fails for a
\* path that is not there, and the callers then keep the path as it is
canonicalize(p, exists) ==
    IF ~ exists THEN p
    ELSE CASE p = "/link"       -> "/in/sub"
           [] p = "/link/b.txt" -> "/in/sub/b.txt"
           [] OTHER             -> p

\* the keys of watch_rules: the canonical paths of the watched directories
CanonicalDirs == { canonicalize(d, TRUE) : d \in WatchDirs }

\* Path::components
Components(p) ==
    CASE p = "/in"           -> << "in" >>
      [] p = "/in/sub"       -> << "in", "sub" >>
      [] p = "/link"         -> << "link" >>
      [] p = "/in/a.txt"     -> << "in", "a.txt" >>
      [] p = "/in/sub/b.txt" -> << "in", "sub", "b.txt" >>
      [] p = "/link/b.txt"   -> << "link", "b.txt" >>
      [] p = "/inbox/c.txt"  -> << "inbox", "c.txt" >>

\* Path::starts_with: base is a prefix of p, component by component
starts_with(p, base) ==
    /\ Len(Components(base)) <= Len(Components(p))
    /\ SubSeq(Components(p), 1, Len(Components(base))) = Components(base)

\* config.watches: a path and the names of the rules it lets through
WatchEntries == [ path : WatchDirs, rules : Filters ]

\* Watcher::new: nothing registered with notify, no watch_rules entry, no
\* scan thread spawned
NoWatcher ==
    [registered |-> {}, watch_rules |-> [d \in CanonicalDirs |-> None], scans |-> << >>]

\* a watch_with_rules that records the entry before it registers
watch_with_rules_eager(w, entry, ok) ==
    IF ~ ok
    THEN [watcher |-> [w EXCEPT !.watch_rules[canonicalize(entry.path, TRUE)] = Some(entry.rules)],
          result |-> "Err"]
    ELSE [watcher |-> [w EXCEPT
                         !.registered = @ \cup { entry.path },
                         !.watch_rules[canonicalize(entry.path, TRUE)] = Some(entry.rules),
                         !.scans = Append(@, [path |-> entry.path,
                                              allowed |-> allowed_rules_for(entry.rules)])],
          result |-> "Ok"]

\* watch_with_rules(path, recursive, rules): self.watcher.watch(path, mode)?
\* returns the error of notify; after it the entry is inserted under the
\* canonical path of the directory and the scan thread is spawned with the
\* filter of the entry
watch_with_rules(w, entry, ok) ==
    IF ~ ok
    THEN [watcher |-> w, result |-> "Err"]
    ELSE [watcher |-> [w EXCEPT
                         !.registered = @ \cup { entry.path },
                         !.watch_rules[canonicalize(entry.path, TRUE)] = Some(entry.rules),
                         !.scans = Append(@, [path |-> entry.path,
                                              allowed |-> allowed_rules_for(entry.rules)])],
          result |-> "Ok"]

\* the loop has not begun: config is config.watches, next the index of the
\* watch the loop is at, watcher the Watcher, reports the paths given to
\* tracing::error! and notify_watch_error; to state the claims, results is
\* what each call returned
NoWatches ==
    [config |-> << >>, next |-> 1, watcher |-> NoWatcher, reports |-> << >>,
     results |-> << >>, lookup |-> None]

\* a loop that keeps the first directory that is a prefix of the path
RECURSIVE best_match_first(_, _, _, _, _)
best_match_first(w, order, i, canonical, best) ==
    IF i > Len(order) THEN best
    ELSE LET watch_canonical == order[i]
         IN  IF starts_with(canonical, watch_canonical) /\ ~ IsSome(best)
             THEN best_match_first(w, order, i + 1, canonical, Some(watch_canonical))
             ELSE best_match_first(w, order, i + 1, canonical, best)

\* the loop of allowed_rules_for over watch_rules, in the order the map
\* yields its entries, from the i-th on: an entry whose directory is a prefix
\* of the path replaces the best match if there is none or if its path is
\* strictly longer
RECURSIVE best_match(_, _, _, _, _)
best_match(w, order, i, canonical, best) ==
    IF i > Len(order) THEN best
    ELSE LET watch_canonical == order[i]
         IN  IF /\ starts_with(canonical, watch_canonical)
                /\ ~ IsSome(best) \/ Len(watch_canonical) > Len(Unwrap(best))
             THEN best_match(w, order, i + 1, canonical, Some(watch_canonical))
             ELSE best_match(w, order, i + 1, canonical, best)

\* the orders in which watch_rules may yield its entries
Orders(w) ==
    LET keys == { d \in CanonicalDirs : IsSome(w.watch_rules[d]) }
    IN  { o \in SeqsUpTo(CanonicalDirs, Cardinality(CanonicalDirs)) :
            Range(o) = keys /\ Len(o) = Cardinality(keys) }

\* Watcher::allowed_rules_for(file_path): the filter of the best match, None
\* when there is no match or when its list is empty
AllowedRulesFor(w, order, file, exists) ==
    LET best == best_match(w, order, 1, canonicalize(file, exists), None)
    IN  IF IsSome(best) THEN allowed_rules_for(Unwrap(w.watch_rules[Unwrap(best)]))
        ELSE None

RegisterInit ==
    /\ watches \in { [NoWatches EXCEPT !.config = c] :
                        c \in SeqsUpTo(WatchEntries, MaxWatches) }
    /\ exec = NoExec
    /\ pass = << >>
    /\ scans = << >>
    /\ app = << >>

\* one round of for watch in &config.watches: notify accepts the directory
\* (ok) or refuses it
RegisterWatch(ok) ==
    LET entry == watches.config[watches.next]
        r == watch_with_rules(watches.watcher, entry, ok)
    IN  /\ watches.next <= Len(watches.config)
        /\ watches' = [watches EXCEPT
                         !.next = @ + 1,
                         !.watcher = r.watcher,
                         !.results = Append(@, r.result),
                         !.reports = IF r.result = "Err" THEN Append(@, entry.path) ELSE @]
        /\ UNCHANGED << exec, pass, scans, app, engineVars, handlerVars, daemonVars >>

\* after the registration loop, an event names a file and the poll loop asks
\* for the filter that applies to it (the model follows one such call)
LookupFilter(order, file, exists) ==
    /\ watches.next > Len(watches.config)
    /\ watches.lookup = None
    /\ order \in Orders(watches.watcher)
    /\ watches' = [watches EXCEPT
                     !.lookup = Some([file |-> file, exists |-> exists,
                                      allowed |-> AllowedRulesFor(watches.watcher, order,
                                                                  file, exists)])]
    /\ UNCHANGED << exec, pass, scans, app, engineVars, handlerVars, daemonVars >>

RegisterNext ==
    \/ \E ok \in BOOLEAN : RegisterWatch(ok)
    \/ \E order \in SeqsUpTo(CanonicalDirs, Cardinality(CanonicalDirs)),
          file \in WatchedFiles, exists \in BOOLEAN : LookupFilter(order, file, exists)

(***************************************************************************)
(* One watcher's threads side by side (watcher/mod.rs): the thread that    *)
(* owns the Watcher and calls process_polled_events, and the detached scan *)
(* threads that watch_with_rules starts, one per registered directory.     *)
(* A reload (daemon.rs, sighup branch) or a restart of the embedded        *)
(* watcher (app/mod.rs) replaces the Watcher; the scan threads already     *)
(* started keep their copy of the rules and their Arc of the counter.      *)
(* What an evaluation finds (rule matched or not, action succeeded or not) *)
(* is left open here; the engine and the actions are modelled above.       *)
(***************************************************************************)
MaxReloads == 1
MaxCycles == 1

\* the files that may lie in the watched directory
ScanFiles == { "/in/a.txt", "/in/b.txt" }

\* what read_dir(path) may list when the scan thread starts
ScanListings == { << >>, << "/in/a.txt" >>, << "/in/a.txt", "/in/b.txt" >> }

\* a store where the code adds
fetch_add_store(c, n) == n

\* AtomicU64::fetch_add(n, Ordering::Relaxed): one atomic read-modify-write
\* (it wraps at 2^64, which no count here comes near)
fetch_add(c, n) == c + n

\* std::thread::spawn(move || scan_existing_background(..)) by the watcher
\* of generation g: scan_rules is the rule list of that watcher's engine,
\* counter its files_processed
spawn_scan(g, listing) ==
    [gen |-> g, todo |-> listing, pc |-> "scan", cur |-> "", scanned |-> 0, matched |-> 0]

\* the thread that owns the watcher, between two calls of
\* process_polled_events
PollIdle == [pc |-> "idle", batch |-> {}, cur |-> "", processed |-> 0]

\* Watcher::new followed by watch_with_rules on the one watch of the
\* configuration.  gen counts the watchers built so far (the rule set in
\* use), counter[g] is the files_processed of watcher g, recent the paths in
\* the debounce table; polled[g] adds up what the calls of
\* process_polled_events of watcher g returned
NoScans ==
    [gen |-> 0, counter |-> [g \in 0..MaxReloads |-> 0],
     polled |-> [g \in 0..MaxReloads |-> 0], threads |-> << >>,
     poll |-> PollIdle, recent |-> {}, cycles |-> 0, dir |-> << >>]

ScanInit ==
    /\ scans \in { [NoScans EXCEPT !.dir = l, !.threads = << spawn_scan(0, l) >>] :
                      l \in ScanListings }
    /\ exec = NoExec
    /\ pass = << >>
    /\ watches = << >>
    /\ app = << >>

notScans == << exec, pass, watches, app, engineVars, handlerVars, daemonVars >>

\* for entry in entries: is_file, scanned += 1, engine.process_filtered up
\* to the action it finds (or Ok(false) when no rule matches)
ThreadEvaluate(t, matches) ==
    /\ scans.threads[t].pc = "scan"
    /\ scans.threads[t].todo # << >>
    /\ scans' = [scans EXCEPT
                   !.threads[t] =
                       IF matches
                       THEN [@ EXCEPT !.pc = "exec",
                                      !.cur = Head(scans.threads[t].todo),
                                      !.scanned = @ + 1]
                       ELSE [@ EXCEPT !.todo = Tail(@), !.scanned = @ + 1]]
    /\ UNCHANGED notScans

\* the action returns: Ok(true) => matched += 1, an error (NotFound or
\* another) is logged
ThreadExecuted(t, result) ==
    /\ scans.threads[t].pc = "exec"
    /\ scans' = [scans EXCEPT
                   !.threads[t] =
                       [@ EXCEPT !.pc = "scan", !.cur = "", !.todo = Tail(@),
                                 !.matched = IF result = "Ok" THEN @ + 1 ELSE @]]
    /\ UNCHANGED notScans

\* if scanned > 0 { counter.fetch_add(matched, Relaxed) }, and the thread ends
ThreadFinish(t) ==
    LET th == scans.threads[t]
    IN  /\ th.pc = "scan"
        /\ th.todo = << >>
        /\ scans' = [scans EXCEPT
                       !.threads[t].pc = "done",
                       !.counter[th.gen] =
                           IF th.scanned > 0 THEN fetch_add(@, th.matched) ELSE @]
        /\ UNCHANGED notScans

\* poll() drains the channel and process_polled_events starts on the
\* batch: the paths notify has reported a Create or Modify of since the
\* last poll
PollTake(batch) ==
    /\ scans.poll.pc = "idle"
    /\ scans.cycles < MaxCycles
    /\ scans' = [scans EXCEPT !.poll = [PollIdle EXCEPT !.pc = "events",
                                                      !.batch = batch],
                              !.cycles = @ + 1]
    /\ UNCHANGED notScans

\* one event of the batch: should_process suppresses a path only when it is
\* in the debounce table (and inside the window); a path let through is
\* entered in the table and evaluated
PollEvaluate(f, outcome) ==
    /\ scans.poll.pc = "events"
    /\ f \in scans.poll.batch
    /\ outcome = "debounced" => f \in scans.recent
    /\ scans' = [scans EXCEPT
                   !.recent = IF outcome = "debounced" THEN @ ELSE @ \cup { f },
                   !.poll = IF outcome = "match"
                            THEN [@ EXCEPT !.pc = "exec", !.cur = f]
                            ELSE [@ EXCEPT !.batch = @ \ { f }]]
    /\ UNCHANGED notScans

\* the action returns: Ok(true) => processed += 1
PollExecuted(result) ==
    /\ scans.poll.pc = "exec"
    /\ scans' = [scans EXCEPT
                   !.poll = [@ EXCEPT !.pc = "events", !.cur = "",
                                      !.batch = @ \ { scans.poll.cur },
                                      !.processed = IF result = "Ok" THEN @ + 1 ELSE @]]
    /\ UNCHANGED notScans

\* self.files_processed.fetch_add(processed as u64, Relaxed); Ok(processed)
PollFinish ==
    /\ scans.poll.pc = "events"
    /\ scans.poll.batch = {}
    /\ scans' = [scans EXCEPT
                   !.counter[scans.gen] = fetch_add(@, scans.poll.processed),
                   !.polled[scans.gen] = @ + scans.poll.processed,
                   !.poll = PollIdle]
    /\ UNCHANGED notScans

\* watcher = new_watcher: a new Watcher (new engine, new counter, new
\* debounce table, new channel) with its watch registered and its scan
\* thread started replaces the one in use, which is dropped
ReplaceWatcher ==
    /\ scans.poll.pc = "idle"
    /\ scans.gen < MaxReloads
    /\ scans' = [scans EXCEPT
                   !.gen = @ + 1,
                   !.threads = Append(@, spawn_scan(scans.gen + 1, scans.dir)),
                   !.recent = {}]
    /\ UNCHANGED notScans

ScanNext ==
    \/ \E t \in 1..(MaxReloads + 2), m \in BOOLEAN :
           t \in DOMAIN scans.threads /\ ThreadEvaluate(t, m)
    \/ \E t \in 1..(MaxReloads + 2), r \in { "Ok", "Err" } :
           t \in DOMAIN scans.threads /\ ThreadExecuted(t, r)
    \/ \E t \in 1..(MaxReloads + 2) : t \in DOMAIN scans.threads /\ ThreadFinish(t)
    \/ \E batch \in SUBSET ScanFiles : PollTake(batch)
    \/ \E f \in ScanFiles, o \in { "debounced", "nomatch", "match" } : PollEvaluate(f, o)
    \/ \E r \in { "Ok", "Err" } : PollExecuted(r)
    \/ PollFinish
    \/ ReplaceWatcher

(***************************************************************************)
(* The front end (app/mod.rs, app/events.rs): the flags of AppState that   *)
(* say who watches, and the embedded watcher that run hands to run_app.    *)
(* What the embedded watcher does with its events is the watcher's pass    *)
(* above (driver "app").                                                   *)
(***************************************************************************)
MaxIterations == 3

\* what the user does while event::poll waits: nothing, Enter on the daemon
\* item of the settings (handle_settings_action => toggle_daemon), q, or a
\* key that touches none of the flags
Keys == { "none", "toggle", "quit", "other" }

\* AppState::new: daemon_running is is_daemon_running(); launch is
\* config.general.start_daemon_on_launch.  embedded is the Option<Watcher>
\* of run (the number of the watcher, counting the ones created); failed
\* tells that the last create_embedded_watcher returned an error, did what
\* the key of this iteration did to the daemon
NoApp ==
    [pc |-> "launch", launch |-> FALSE, daemon_running |-> FALSE,
     watcher_needs_restart |-> FALSE, should_quit |-> FALSE,
     embedded |-> None, created |-> 0, failed |-> FALSE, did |-> "none", iter |-> 0]

AppInit ==
    /\ app \in { [NoApp EXCEPT !.launch = l, !.daemon_running = r] : l, r \in BOOLEAN }
    /\ exec = NoExec
    /\ pass = << >>
    /\ watches = << >>
    /\ scans = << >>

notApp == << exec, pass, watches, scans, engineVars, handlerVars, daemonVars >>

\* match create_embedded_watcher(config): Ok(w) => Some(w); on an error
\* the Option becomes (at startup) or stays (in the loop) what `otherwise` is
create_embedded_watcher(a, ok, otherwise) ==
    IF ok
    THEN [a EXCEPT !.embedded = Some(a.created + 1), !.created = @ + 1, !.failed = FALSE]
    ELSE [a EXCEPT !.embedded = otherwise, !.failed = TRUE]

\* a toggle_daemon whose stop arm does not ask for the watcher's restart
toggle_daemon_no_restart(a, spawned) ==
    IF ~ spawned THEN [a EXCEPT !.did = "spawn_failed"]
    ELSE IF a.daemon_running
         THEN [a EXCEPT !.daemon_running = FALSE, !.did = "stopped"]
         ELSE [a EXCEPT !.daemon_running = TRUE, !.did = "started"]

\* toggle_daemon: hazelnutd stop or start is spawned, and when the spawn
\* succeeds the flags are set without waiting for the command
toggle_daemon(a, spawned) ==
    IF ~ spawned THEN [a EXCEPT !.did = "spawn_failed"]
    ELSE IF a.daemon_running
         THEN [a EXCEPT !.daemon_running = FALSE, !.watcher_needs_restart = TRUE,
                        !.did = "stopped"]
         ELSE [a EXCEPT !.daemon_running = TRUE, !.did = "started"]

\* if start_daemon_on_launch && !state.daemon_running { spawn hazelnutd start }
AppLaunch(spawned) ==
    /\ app.pc = "launch"
    /\ app' = [(IF app.launch /\ ~ app.daemon_running /\ spawned
                THEN [app EXCEPT !.daemon_running = TRUE] ELSE app)
                  EXCEPT !.pc = "embed"]
    /\ UNCHANGED notApp

\* let mut embedded_watcher = if !state.daemon_running { .. } else { None }
AppEmbed(ok) ==
    /\ app.pc = "embed"
    /\ app' = [(IF ~ app.daemon_running THEN create_embedded_watcher(app, ok, None)
                ELSE [app EXCEPT !.embedded = None])
                  EXCEPT !.pc = "key"]
    /\ UNCHANGED notApp

\* the loop up to handle_key: at most one key press per iteration
AppKey(key, spawned) ==
    /\ app.pc = "key"
    /\ app.iter < MaxIterations
    /\ app' = [(CASE key = "toggle" -> toggle_daemon(app, spawned)
                  [] key = "quit" -> [app EXCEPT !.should_quit = TRUE, !.did = "none"]
                  [] OTHER -> [app EXCEPT !.did = "none"])
                  EXCEPT !.pc = "stop_check", !.iter = @ + 1]
    /\ UNCHANGED notApp

\* if state.daemon_running && embedded_watcher.is_some() { *embedded_watcher = None }
AppStopCheck ==
    /\ app.pc = "stop_check"
    /\ app' = [app EXCEPT !.pc = "restart_check",
                          !.embedded = IF app.daemon_running THEN None ELSE @]
    /\ UNCHANGED notApp

\* if state.watcher_needs_restart { .. create_embedded_watcher .. }, and the
\* embedded watcher's poll
AppRestartCheck(ok) ==
    /\ app.pc = "restart_check"
    /\ app' = [(IF app.watcher_needs_restart
                THEN create_embedded_watcher([app EXCEPT !.watcher_needs_restart = FALSE],
                                             ok, app.embedded)
                ELSE app)
                  EXCEPT !.pc = "end"]
    /\ UNCHANGED notApp

\* state.tick(); if state.should_quit { break }
AppEnd ==
    /\ app.pc = "end"
    /\ app' = [app EXCEPT !.pc = IF app.should_quit THEN "quit" ELSE "key"]
    /\ UNCHANGED notApp

AppNext ==
    \/ \E spawned \in BOOLEAN : AppLaunch(spawned)
    \/ \E ok \in BOOLEAN : AppEmbed(ok)
    \/ \E key \in Keys, spawned \in BOOLEAN : AppKey(key, spawned)
    \/ AppStopCheck
    \/ \E ok \in BOOLEAN : AppRestartCheck(ok)
    \/ AppEnd

(***************************************************************************)
(* The specifications.                                                     *)
(***************************************************************************)
\* no daemon has ever been started
DaemonIdle ==
    /\ daemon = [d \in Pids |-> NoDaemon]
    /\ pidFile = None
    /\ sockFile = None
    /\ configFile = "absent"
    /\ nconn = 0
    /\ cli = NoCli

\* hazelnut run has just been started in the foreground, as process 1
DaemonInit ==
    /\ daemon = [d \in Pids |-> IF d = 1 THEN Spawned ELSE NoDaemon]
    /\ pidFile = None
    /\ sockFile = None
    /\ configFile \in ConfigFiles
    /\ nconn = 0
    /\ cli = NoCli

\* the steps of the daemon process d
DaemonStep(d) ==
    \/ RunWritePid(d)
    \/ RunRemoveSocket(d)
    \/ RunBind(d)
    \/ RunSignals(d)
    \/ RunLoadErr(d)
    \/ RunWatcherErr(d)
    \/ \E failed \in SUBSET (1..InboxConfig.watches) : RunLoaded(d, failed)
    \/ LoopSigterm(d)
    \/ LoopSigint(d)
    \/ \E ok \in BOOLEAN, failed \in SUBSET (1..InboxConfig.watches) : LoopSighup(d, ok, failed)
    \/ \E n \in 0..1 : LoopTick(d, n)
    \/ ScanFile(d)
    \/ ScanEnd(d)
    \/ LoopAccept(d)
    \/ \E line \in Lines : ReadLine(d, line)
    \/ ReadEof(d)
    \/ StopBreak(d)
    \/ CleanupPid(d)
    \/ CleanupSock(d)

\* the foreground daemon with its clients, the signals sent to it and the
\* edits of its configuration file
DaemonNext ==
    \/ \E d \in Pids : DaemonStep(d)
    \/ \E d \in Pids : ClientConnect(d)
    \/ \E d \in Pids, k \in 0..MaxConns : ClientSend(d, k)
    \/ \E d \in Pids, k \in 0..MaxConns : ClientClose(d, k)
    \/ \E d \in Pids, sig \in Signals : EnvSignal(d, sig)
    \/ \E f \in ConfigFiles : EditConfig(f)

InitDaemon == DaemonInit /\ EngineIdle /\ HandlerIdle /\ WatcherIdle

SpecDaemon == InitDaemon /\ [][DaemonNext]_vars

\* select! polls its ready branches in random order, so a signal branch that
\* is ready again and again is taken; a line that has arrived is read; the
\* steps after the loop are taken.  Nothing makes a client write.
DaemonFairness ==
    \A d \in Pids :
        /\ SF_vars(LoopSigterm(d))
        /\ SF_vars(LoopSigint(d))
        /\ WF_vars(\E line \in Lines : ReadLine(d, line))
        /\ WF_vars(ReadEof(d))
        /\ WF_vars(StopBreak(d))
        /\ WF_vars(CleanupPid(d))
        /\ WF_vars(CleanupSock(d))

SpecDaemonFair == InitDaemon /\ [][DaemonNext]_vars /\ DaemonFairness

\* the foreground daemon (process 1) while no file event arrives and its
\* scans find nothing: its startup, the branches of its loop, its clients,
\* the signals sent to it (SIGINT, handled as SIGTERM is, left out) and the
\* edits of its configuration file
ReloadNext ==
    \/ RunWritePid(1)
    \/ RunRemoveSocket(1)
    \/ RunBind(1)
    \/ RunSignals(1)
    \/ RunLoadErr(1)
    \/ RunWatcherErr(1)
    \/ \E failed \in SUBSET (1..InboxConfig.watches) : RunLoaded(1, failed)
    \/ LoopSigterm(1)
    \/ \E ok \in BOOLEAN, failed \in SUBSET (1..InboxConfig.watches) : LoopSighup(1, ok, failed)
    \/ LoopTick(1, 0)
    \/ LoopAccept(1)
    \/ \E line \in Lines : ReadLine(1, line)
    \/ ReadEof(1)
    \/ StopBreak(1)
    \/ CleanupPid(1)
    \/ CleanupSock(1)
    \/ ClientConnect(1)
    \/ \E k \in 0..MaxConns : ClientSend(1, k)
    \/ \E k \in 0..MaxConns : ClientClose(1, k)
    \/ \E sig \in { "SIGTERM", "SIGHUP" } : EnvSignal(1, sig)
    \/ \E f \in ConfigFiles : EditConfig(f)

\* as DaemonFairness, for process 1 and with the sighup branch: tokio's
\* select! starts at a random branch, so the sighup branch too is taken when
\* it is ready again and again
ReloadFairness ==
    /\ SF_vars(LoopSigterm(1))
    /\ SF_vars(\E ok \in BOOLEAN, failed \in SUBSET (1..InboxConfig.watches) :
                   LoopSighup(1, ok, failed))
    /\ WF_vars(\E line \in Lines : ReadLine(1, line))
    /\ WF_vars(ReadEof(1))
    /\ WF_vars(StopBreak(1))
    /\ WF_vars(CleanupPid(1))
    /\ WF_vars(CleanupSock(1))

SpecReloadFair == InitDaemon /\ [][ReloadNext]_vars /\ ReloadFairness

\* nothing has been started, and no configuration file or one that does not
\* parse: the daemons started have no watch
LifecycleInit ==
    /\ daemon = [d \in Pids |-> NoDaemon]
    /\ pidFile = None
    /\ sockFile = None
    /\ configFile \in { "absent", "invalid" }
    /\ nconn = 0
    /\ cli = NoCli

\* the steps of a detached daemon d: no terminal sends it SIGINT, it has no
\* watch (no file to process, no scan thread), and no client connects
LifecycleDaemonStep(d) ==
    \/ RunWritePid(d)
    \/ RunRemoveSocket(d)
    \/ RunBind(d)
    \/ RunSignals(d)
    \/ RunLoadErr(d)
    \/ RunWatcherErr(d)
    \/ RunLoaded(d, {})
    \/ LoopSigterm(d)
    \/ \E ok \in BOOLEAN : LoopSighup(d, ok, {})
    \/ LoopTick(d, 0)
    \/ CleanupPid(d)
    \/ CleanupSock(d)

LifecycleNext ==
    \/ \E c \in Commands : CliBegin(c)
    \/ CliGetStatus
    \/ \E d \in Pids : CliSpawn(d)
    \/ CliWritePid
    \/ CliTerm
    \/ CliPoll
    \/ CliKill
    \/ CliKillRemove
    \/ CliHup
    \/ \E d \in Pids : LifecycleDaemonStep(d)
    \/ \E f \in { "absent", "invalid" } : EditConfig(f)

InitLifecycle == LifecycleInit /\ EngineIdle /\ HandlerIdle /\ WatcherIdle

SpecLifecycle == InitLifecycle /\ [][LifecycleNext]_vars

\* Commands::Run from a terminal: run_daemon is entered under the next free
\* pid, whatever get_status would say
ForegroundRun(d) ==
    /\ daemon[d].pc = "none"
    /\ \A e \in Pids : e < d => daemon[e].pc # "none"
    /\ daemon' = [daemon EXCEPT ![d] = Spawned]
    /\ UNCHANGED << pidFile, cli, notCli >>

\* start and status from one shell, hazelnutd run from another, and
\* SIGTERM sent to a daemon (kill, or the stop command of a third shell);
\* the daemons are not asked to reload
LifecycleRunNext ==
    \/ \E c \in { "start", "status" } : CliBegin(c)
    \/ CliGetStatus
    \/ \E d \in Pids : CliSpawn(d)
    \/ CliWritePid
    \/ \E d \in Pids : ForegroundRun(d)
    \/ \E d \in Pids : RunWritePid(d)
    \/ \E d \in Pids : RunRemoveSocket(d)
    \/ \E d \in Pids : RunBind(d)
    \/ \E d \in Pids : RunSignals(d)
    \/ \E d \in Pids : RunLoadErr(d)
    \/ \E d \in Pids : RunWatcherErr(d)
    \/ \E d \in Pids : RunLoaded(d, {})
    \/ \E d \in Pids : LoopSigterm(d)
    \/ \E d \in Pids : LoopTick(d, 0)
    \/ \E d \in Pids : CleanupPid(d)
    \/ \E d \in Pids : CleanupSock(d)
    \/ \E d \in Pids : EnvSignal(d, "SIGTERM")
    \/ \E f \in { "absent", "invalid" } : EditConfig(f)

SpecLifecycleRun == InitLifecycle /\ [][LifecycleRunNext]_vars

InitHandler == HandlerInit /\ EngineIdle /\ DaemonIdle /\ WatcherIdle

SpecHandler == InitHandler /\ [][HandlerNext]_vars

SpecHandlerCap == InitHandler /\ [][HandlerCapNext]_vars

InitCondition == ConditionInit /\ HandlerIdle /\ DaemonIdle /\ WatcherIdle

SpecCondition == InitCondition /\ [][ConditionNext]_vars

InitEngine == EngineInit /\ HandlerIdle /\ DaemonIdle /\ WatcherIdle

SpecEngine == InitEngine /\ [][EngineNext]_vars

InitExec == ExecInit /\ HandlerIdle /\ DaemonIdle

SpecExec == InitExec /\ [][ExecNext]_vars

InitWatcher == WatcherInit /\ DaemonIdle

SpecWatcher == InitWatcher /\ [][WatcherNext]_vars

InitRegister == RegisterInit /\ EngineIdle /\ HandlerIdle /\ DaemonIdle

SpecRegister == InitRegister /\ [][RegisterNext]_vars

InitScan == ScanInit /\ EngineIdle /\ HandlerIdle /\ DaemonIdle

SpecScan == InitScan /\ [][ScanNext]_vars

InitApp == AppInit /\ EngineIdle /\ HandlerIdle /\ DaemonIdle

SpecApp == InitApp /\ [][AppNext]_vars

(***************************************************************************)
(* The rule engine's claims.                                               *)
(***************************************************************************)
Min(S) == CHOOSE x \in S : \A y \in S : x <= y

\* the enabled rules whose condition matches p
EnabledMatching(rs, p, d) ==
    { i \in 1..Len(rs) : rs[i].enabled /\ Matches(rs[i].condition, p, d) = OkBool(TRUE) }

\* the enabled rules whose condition does not evaluate to false on p
EnabledDeciding(rs, p, d) ==
    { i \in 1..Len(rs) : rs[i].enabled /\ Matches(rs[i].condition, p, d) # OkBool(FALSE) }

\* what the first enabled rule that matches p or fails on it decides
FirstOutcome(rs, p, d) ==
    IF EnabledDeciding(rs, p, d) = {} THEN OkAction(None)
    ELSE LET i == Min(EnabledDeciding(rs, p, d))
         IN  IF Matches(rs[i].condition, p, d).ok
             THEN OkAction(Some(rs[i].action))
             ELSE ErrAction

\* the rules named in names, in their order
Restrict(rs, names) == SelectSeq(rs, LAMBDA r : NameAllowed(names, r.name))

C2_DisabledNeverReturned ==
    call.fn \in {"evaluate", "evaluate_filtered"} =>
        /\ IsSome(call.result.action) =>
              \E i \in EnabledMatching(rules, call.path, disk) :
                  rules[i].action = Unwrap(call.result.action)
        /\ (\A i \in 1..Len(rules) : ~rules[i].enabled) => call.result = OkAction(None)

\* a disabled rule whose condition matches comes first and is passed over
C2_Witness ==
    /\ call.fn \in {"evaluate", "evaluate_filtered"}
    /\ Len(rules) = 2
    /\ ~rules[1].enabled
    /\ Matches(rules[1].condition, call.path, disk) = OkBool(TRUE)
    /\ rules[2].enabled
    /\ rules[2].action # rules[1].action
    /\ call.result = OkAction(Some(rules[2].action))

\* C3: evaluate_filtered with a non-empty name list returns what evaluation
\* of the rule list restricted to the named rules returns, never the action
\* of a rule that is not named; with None or an empty list it returns what
\* evaluation of the whole list returns.
C3_FilterContainment ==
    call.fn = "evaluate_filtered" =>
        IF IsSome(call.allowed) /\ Unwrap(call.allowed) # << >>
        THEN /\ call.result = FirstOutcome(Restrict(rules, Unwrap(call.allowed)), call.path, disk)
             /\ IsSome(call.result.action) =>
                   \E i \in 1..Len(rules) :
                       /\ NameAllowed(Unwrap(call.allowed), rules[i].name)
                       /\ rules[i].action = Unwrap(call.result.action)
        ELSE call.result = FirstOutcome(rules, call.path, disk)

\* the filter passes over an earlier matching rule that is not named
C3_Witness ==
    /\ call.fn = "evaluate_filtered"
    /\ call.allowed = Some(<< "logs" >>)
    /\ Len(rules) = 2
    /\ EnabledMatching(rules, call.path, disk) = {1, 2}
    /\ rules[1].name = "pdfs" /\ rules[2].name = "logs"
    /\ rules[1].action # rules[2].action
    /\ call.result = OkAction(Some(rules[2].action))

(***************************************************************************)
(* The debounce tracker's claims.                                          *)
(***************************************************************************)
\* C4: with window W, should_process returns a path at its first event,
\* does not return it at an event less than W after the event for which it
\* was last returned (an event with that path alone yields the empty list),
\* and returns it again at an event more than W after that one.
C4_DebounceSuppression ==
    seen.last.op = "should_process" =>
        \A p \in Range(seen.last.paths) :
            LET before == seen.last.before[p]
            IN  /\ ~IsSome(before) => p \in Range(seen.last.returned)
                /\ (IsSome(before) /\ now - Unwrap(before) < debounce) =>
                      /\ p \notin Range(seen.last.returned)
                      /\ seen.last.paths = << p >> => seen.last.returned = << >>
                /\ (IsSome(before) /\ now - Unwrap(before) > debounce) =>
                      p \in Range(seen.last.returned)

\* a path is returned again, more than a window after it was last returned,
\* with sightings inside the window behind it
C4_Witness ==
    /\ seen.last.op = "should_process"
    /\ debounce = 2
    /\ seen.last.paths = << "/in/report.PDF" >>
    /\ seen.last.before["/in/report.PDF"] = Some(now - 3)
    /\ seen.last.returned = << "/in/report.PDF" >>
    /\ seen.last.resumed = { "/in/report.PDF" }

(***************************************************************************)
(* The run loop's claims.                                                  *)
(***************************************************************************)
\* C5: right after a successful reload the files-processed counter of the
\* daemon's watcher equals the counter right before the reload.
C5_ReloadPreservesCounter ==
    \A d \in Pids :
        IsSome(daemon[d].reloaded)
            => daemon[d].watcher.files_processed = Unwrap(daemon[d].reloaded)

\* C6: once a terminate or interrupt signal is pending at a daemon whose
\* run loop is running, the daemon eventually exits, whatever its clients do.
C6_SignalNeverStarved ==
    \A d \in Pids :
        (Running(d) /\ daemon[d].sigs \cap { "SIGTERM", "SIGINT" } # {})
            ~> (daemon[d].pc = "exited")

\* C7: from the break of the Stop arm on, through the removal of the PID
\* file and of the socket, the connection that carried the Stop request has
\* exactly one response written on it, Ok.
C7_StopAnsweredBeforeBreak ==
    \A d \in Pids :
        (\/ daemon[d].pc = "stop_break"
         \/ daemon[d].why = "stop" /\ daemon[d].pc \in { "cleanup_pid", "cleanup_sock" })
            => /\ IsSome(daemon[d].served)
               /\ ParseCommand(Unwrap(daemon[d].served).line.text) = Some("Stop")
               /\ Unwrap(daemon[d].served).resp = << ResponseOk >>

\* a daemon stopped over the socket has removed its PID file and is about
\* to remove the socket, with Ok written to the client
C7_Witness ==
    \E d \in Pids :
        /\ daemon[d].why = "stop"
        /\ daemon[d].pc = "cleanup_sock"
        /\ pidFile = None
        /\ sockFile = Some(d)
        /\ IsSome(daemon[d].served)
        /\ Unwrap(daemon[d].served).resp = << ResponseOk >>

\* the response type that matches a command
ResponseType(cmd) ==
    CASE cmd \in { "Status", "GetStats" } -> "status"
      [] cmd \in { "Stop", "Reload" } -> "ok"
      [] cmd = "GetLog" -> "log"

\* C8: a connection on which the daemon received a request line is closed
\* with exactly one response written on it: the response matching the
\* command, or Error when the line is no command.
C8_EveryRequestAnswered ==
    \A d \in Pids :
        IsSome(daemon[d].served) =>
            LET s == Unwrap(daemon[d].served)
                cmd == IF s.line.utf8 THEN ParseCommand(s.line.text) ELSE None
            IN  /\ Len(s.resp) = 1
                /\ IsSome(cmd) => s.resp[1].type = ResponseType(Unwrap(cmd))
                /\ ~ IsSome(cmd) => s.resp[1].type = "error"

(***************************************************************************)
(* The lifecycle commands' claims.                                         *)
(***************************************************************************)
\* a status that ran right after a start that found no PID file
StatusAfterFreshStart ==
    /\ cli.cmd = "status"
    /\ cli.pc = "done"
    /\ cli.prev.cmd = "start"
    /\ cli.prev.fresh
    /\ IsSome(cli.prev.spawned)

\* start, begun with no PID file, has returned
FreshStartDone == cli.cmd = "start" /\ cli.pc = "done" /\ cli.fresh

\* C9 as stated: start begun with no PID file spawns a daemon and returns
\* with its pid in the PID file, and the status that follows reports running
\* with that pid.
C9_StatusReportsSpawned ==
    /\ FreshStartDone => IsSome(cli.spawned) /\ cli.left = cli.spawned
    /\ StatusAfterFreshStart => cli.status = [running |-> TRUE, pid |-> cli.prev.spawned]

\* C9, amended: start begun with no PID file spawns a daemon and returns
\* with its pid in the PID file; the status that follows reports running
\* with that pid when that daemon is running and has not removed the PID
\* file on its way out, and reports not running otherwise.
C9_StatusReportsSpawnedIfUp ==
    /\ FreshStartDone => IsSome(cli.spawned) /\ cli.left = cli.spawned
    /\ StatusAfterFreshStart =>
           IF Unwrap(cli.prev.spawned) \in cli.up
           THEN cli.status = [running |-> TRUE, pid |-> cli.prev.spawned]
           ELSE cli.status = NoStatus

\* status right after a fresh start finds the spawned daemon in its run loop
\* and reports it
C9_Witness ==
    /\ StatusAfterFreshStart
    /\ cli.status = [running |-> TRUE, pid |-> cli.prev.spawned]
    /\ Running(Unwrap(cli.prev.spawned))

\* C10: once stop (or the stop_daemon of restart) has returned there is no
\* PID file, whichever way it returned, and the status that follows a stop
\* reports not running.
C10_StopLeavesNoPidFile ==
    /\ (cli.cmd = "stop" /\ cli.pc = "done") => pidFile = None /\ cli.path # "none"
    /\ (cli.cmd = "restart" /\ cli.doing = "start" /\ cli.pc = "get_status")
           => cli.left = None /\ cli.path # "none"
    /\ (cli.cmd = "status" /\ cli.pc = "done" /\ cli.prev.cmd = "stop")
           => cli.status = NoStatus

\* status after a stop that had to kill the daemon
C10_Witness ==
    /\ cli.cmd = "status"
    /\ cli.pc = "done"
    /\ cli.prev.cmd = "stop"
    /\ cli.prev.path = "killed"
    /\ cli.status = NoStatus

(***************************************************************************)
(* The claims about status and start (daemon.rs, get_status, start_daemon).*)
(***************************************************************************)
\* C11: when status finds a PID file naming a process that is not running,
\* it reports not running and the PID file is gone when it returns; when the
\* PID file names a running process, status leaves the PID file as it was.
C11_StatusRemovesOnlyStale ==
    (cli.cmd = "status" /\ cli.pc = "done" /\ IsSome(cli.had)) =>
        IF Unwrap(cli.had) \in cli.alive
        THEN cli.left = cli.had /\ cli.status.running
        ELSE cli.left = None /\ ~ cli.status.running

\* status has returned after finding the PID file of a dead process
C11_Witness ==
    /\ cli.cmd = "status" /\ cli.pc = "done"
    /\ IsSome(cli.had) /\ Unwrap(cli.had) \notin cli.alive
    /\ pidFile = None

\* C12: start_daemon that finds the PID file naming a running process
\* returns at once: it spawns nothing and leaves the PID file, the socket
\* and every daemon process as they were.
C12_StartIsNoOpWhenRunning ==
    [][(/\ cli.pc = "get_status" /\ cli.doing = "start" /\ cli' # cli
        /\ IsSome(pidFile) /\ ProcessRunning(daemon, Unwrap(pidFile)))
       => (/\ cli'.pc = "done" /\ cli'.spawned = None
           /\ UNCHANGED << daemon, pidFile, sockFile >>)]_vars

\* start has returned without spawning, the PID file naming a running daemon
C12_Witness ==
    /\ cli.cmd = "start" /\ cli.pc = "done" /\ cli.spawned = None
    /\ IsSome(cli.had) /\ Unwrap(cli.had) \in cli.alive
    /\ pidFile = cli.had /\ ProcessRunning(daemon, Unwrap(pidFile))

(***************************************************************************)
(* The claims about the run loop (daemon.rs, run_daemon).                  *)
(***************************************************************************)
LoopEnds == { "sigterm", "sigint", "stop" }

\* C13: a daemon whose run loop ended by SIGTERM, by SIGINT or by an IPC
\* Stop request has exited only after removing the PID file and the socket
\* file: neither exists once it has exited.
C13_CleanExitRemovesFiles ==
    \A d \in Pids :
        (daemon[d].pc = "exited" /\ daemon[d].why \in LoopEnds) =>
            pidFile = None /\ sockFile = None

\* the foreground daemon wrote its PID, bound its socket, left its loop and
\* has exited
C13_Witness ==
    \E d \in Pids :
        /\ daemon[d].pc = "exited" /\ daemon[d].why \in LoopEnds
        /\ pidFile = None /\ sockFile = None

\* C14: a poll tick processes its events with the rule list and with the directory filters
\* of one configuration, the one the watcher in use was built from: after a
\* reload that replaced the watcher, that is the reloaded configuration, for
\* the engine and for every filter.  (The reload is one branch of the loop:
\* LoopSighup is one step, and LoopTick is a step of the same loop.)
C14_TickUsesOneConfiguration ==
    \A d \in Pids :
        IsSome(daemon[d].ticked) =>
            LET t == Unwrap(daemon[d].ticked)
            IN  /\ t.rules = daemon[d].loaded.rules
                /\ \A e \in t.watch_rules :
                       /\ e.filter = daemon[d].loaded.rules
                       /\ e.dir \in 1..daemon[d].loaded.watches

\* a poll tick has processed an event after a reload replaced the watcher
C14_Witness ==
    \E d \in Pids :
        /\ daemon[d].swapped
        /\ IsSome(daemon[d].ticked)
        /\ Unwrap(daemon[d].ticked).events > 0
        /\ Unwrap(daemon[d].ticked).rules = InboxConfig.rules

(***************************************************************************)
(* The claims about Move (rules/action.rs, Action::execute).               *)
(***************************************************************************)
\* execute was called for a Move of a file that existed
MoveCalled ==
    /\ exec.pc # "idle"
    /\ exec.action.kind = "Move"
    /\ exec.before[exec.path].exists

ExecDest == DestPath(exec.action.destination, exec.path)

\* C18: a Move into a directory that already holds a file of the same name
\* returns an error and leaves the whole file system as it was when
\* overwrite is false; when overwrite is true it returns Ok unless the
\* create_dir_all, the copy or the remove was made to fail from outside,
\* and whenever it returns Ok the destination holds what the source held
\* and the source is gone.
C18_MoveOntoExistingFile ==
    (MoveCalled /\ exec.pc = "done" /\ exec.before[ExecDest].exists) =>
        IF ~ exec.action.overwrite
        THEN exec.result # "Ok" /\ disk = exec.before
        ELSE /\ exec.faults \subseteq { "rename" } => exec.result = "Ok"
             /\ exec.result = "Ok" =>
                    /\ disk[ExecDest].exists
                    /\ disk[ExecDest].content = exec.before[exec.path].content
                    /\ ~ disk[exec.path].exists

\* a Move with overwrite has replaced an existing file by the copy-and-remove
\* fallback
C18_Witness ==
    /\ MoveCalled /\ exec.pc = "done" /\ exec.action.overwrite
    /\ exec.before[ExecDest].exists /\ exec.before[ExecDest].content = "old"
    /\ exec.faults = { "rename" }
    /\ exec.result = "Ok"
    /\ disk[ExecDest].content = "report"
    /\ ~ disk[exec.path].exists

\* C19: from the call of a Move on, whatever step fails, what the source
\* file held is held by the source or by the destination file.
C19_MoveKeepsACopy ==
    MoveCalled =>
        \/ /\ disk[exec.path].exists
           /\ disk[exec.path].content = exec.before[exec.path].content
        \/ /\ disk[ExecDest].exists
           /\ disk[ExecDest].content = exec.before[exec.path].content

\* the rename failed, the copy was made, and the remove of the source
\* failed: both files hold the content
C19_Witness ==
    /\ MoveCalled /\ exec.pc = "done" /\ exec.result = "OtherIo"
    /\ exec.faults = { "rename", "remove" }
    /\ disk[exec.path].exists
    /\ disk[ExecDest].exists
    /\ disk[ExecDest].content = disk[exec.path].content

(***************************************************************************)
(* The claims about the watcher's passes (watcher/mod.rs).                 *)
(***************************************************************************)
\* the paths of the pass whose rule matched and whose action returned Ok
Counted(ps) ==
    Cardinality({ i \in 1..Len(ps.outcomes) : ps.outcomes[i].outcome = "Ok" })

\* C15: when a pass (a poll batch or a scan) is over, the counter has grown
\* by one for each path whose rule matched and whose action returned Ok, and
\* by nothing for any other path or event; and no step makes it smaller.
C15_CounterCountsSuccesses ==
    /\ [](pass.pc = "done" => pass.files_processed = pass.start + Counted(pass))
    /\ [][pass'.files_processed >= pass.files_processed]_vars

\* a poll batch of two events is over: one path was processed with success
\* and counted, another was handled and not counted, the rest was dropped
C15_Witness ==
    /\ pass.mode = "poll" /\ pass.pc = "done" /\ pass.events = MaxEvents
    /\ Len(pass.outcomes) = 2 /\ Counted(pass) = 1
    /\ pass.start = 0 /\ pass.files_processed = 1

\* C16: when a pass is over, every path whose processing failed with an
\* error other than NotFound has its error! line, it was not counted, and
\* every path handed to the loop has been handled, in order: the ones after
\* the failure too.
C16_ErrorReportedPassGoesOn ==
    pass.pc = "done" =>
        /\ \A i \in 1..Len(pass.outcomes) :
               pass.outcomes[i].outcome \in Reported =>
                   [sink |-> "log", path |-> pass.outcomes[i].path] \in pass.reports
        /\ pass.files_processed = pass.start + Counted(pass)
        /\ [i \in 1..Len(pass.outcomes) |-> pass.outcomes[i].path] = pass.due

\* the first path of a pass failed (the destination existed, or a call
\* failed), and the path after it was processed and counted
C16_Witness ==
    /\ pass.pc = "done" /\ Len(pass.outcomes) = 2
    /\ pass.outcomes[1].outcome \in { "Bail", "OtherIo" }
    /\ pass.outcomes[2].outcome = "Ok"
    /\ pass.files_processed = pass.start + 1

\* C17: an error is skipped without a report only when the file had vanished:
\* a path whose error is skipped is not counted and not reported, and no
\* failure on a file that was there is skipped.
C17_OnlyVanishedFilesSkipped ==
    \A i \in 1..Len(pass.outcomes) :
        pass.outcomes[i].outcome = "NotFound" =>
            /\ \A r \in pass.reports : r.path # pass.outcomes[i].path
            /\ ~ pass.outcomes[i].existed

(***************************************************************************)
(* The claim about watch registration (watch_with_rules, run_daemon).      *)
(***************************************************************************)
\* the watches whose registration did not fail, in the order of the
\* configuration, among the first n
RECURSIVE Kept(_, _, _)
Kept(config, results, n) ==
    IF n = 0 THEN << >>
    ELSE IF results[n] = "Ok"
         THEN Append(Kept(config, results, n - 1), config[n])
         ELSE Kept(config, results, n - 1)

\* the watcher after registering every watch of config with success
RECURSIVE AllRegistered(_, _)
AllRegistered(config, n) ==
    IF n = 0 THEN NoWatcher
    ELSE watch_with_rules(AllRegistered(config, n - 1), config[n], TRUE).watcher

\* the paths of the watches whose registration failed, among the first n
RECURSIVE Refused(_, _, _)
Refused(config, results, n) ==
    IF n = 0 THEN << >>
    ELSE IF results[n] = "Err"
         THEN Append(Refused(config, results, n - 1), config[n].path)
         ELSE Refused(config, results, n - 1)

\* C20: after any number of rounds of the registration loop, the watcher
\* (directories registered, watch_rules entries, scans spawned and their
\* filters) is the one that registering only the watches that did not fail
\* gives, and the reports are the paths of the failed watches, one report
\* for each failure, in order.
C20_FailedWatchLeavesNoTrace ==
    watches # << >> =>
        LET done == Len(watches.results)
            kept == Kept(watches.config, watches.results, done)
        IN  /\ watches.watcher = AllRegistered(kept, Len(kept))
            /\ watches.reports = Refused(watches.config, watches.results, done)

\* of three watches of three directories the second failed: the first and
\* the third are registered, the second has no entry and no scan
C20_Witness ==
    /\ watches # << >>
    /\ watches.results = << "Ok", "Err", "Ok" >>
    /\ Cardinality({ watches.config[i].path : i \in 1..3 }) = 3
    /\ watches.watcher.registered = { watches.config[1].path, watches.config[3].path }
    /\ watches.watcher.watch_rules[canonicalize(watches.config[2].path, TRUE)] = None
    /\ Len(watches.watcher.scans) = 2
    /\ watches.reports = << watches.config[2].path >>

(***************************************************************************)
(* Hidden files in the watcher (watcher/mod.rs, process_polled_events and  *)
(* scan_existing_background).                                              *)
(***************************************************************************)
\* the outcomes of a path that went through evaluate_filtered (an entry of
\* the scan that is no file any more never gets there)
Evaluated == { "Ok", "NoMatch", "EvalErr", "NotFound", "OtherIo", "Bail" }

\* C21: neither the event loop nor the initial scan evaluates the rules or
\* executes an action for a hidden file (a file whose name begins with a
\* dot): no path that a pass evaluated is hidden.
C21_HiddenFilesSkipped ==
    \A i \in 1..Len(pass.outcomes) :
        pass.outcomes[i].outcome \in Evaluated
            => ~ StartsWithDot(FileName(pass.outcomes[i].path))

(***************************************************************************)
(* The size of the debounce table (watcher/handler.rs).                    *)
(***************************************************************************)
\* C22: the debounce table is bounded: after any should_process call it
\* holds no more entries than the cap (MAX_DEBOUNCE_ENTRIES, here at the
\* scale of the model), whatever the events.
C22_TableNeverAboveCap ==
    seen.last.op = "should_process" => Cardinality(Entries(recent)) <= ScaledCap

(***************************************************************************)
(* Condition::matches (rules/condition.rs).                                *)
(***************************************************************************)
\* the condition that the call of matches was made on
Cond == rules[1].condition

\* matches was called on a path p
MatchesCalled == call.fn = "matches" /\ Len(rules) = 1

\* the patterns of the condition compile
PatternsCompile(c) ==
    /\ IsSome(c.name_matches) => GlobCompiles(Unwrap(c.name_matches))
    /\ IsSome(c.name_regex) => RegexCompiles(Unwrap(c.name_regex))

\* the extension of p is ext, whatever the case of the letters
ExtensionIs(p, ext) ==
    /\ IsSome(Extension(p))
    /\ Lower(Unwrap(Extension(p))) = Lower(ext)

\* every predicate on the name of p that c sets holds
NameHolds(c, p) ==
    /\ IsSome(c.extension) => ExtensionIs(p, Unwrap(c.extension))
    /\ c.extensions # << >> => \E i \in 1..Len(c.extensions) : ExtensionIs(p, c.extensions[i])
    /\ IsSome(c.name_matches) =>
           /\ GlobCompiles(Unwrap(c.name_matches))
           /\ GlobMatches(Unwrap(c.name_matches), FileName(p))
    /\ IsSome(c.name_regex) =>
           /\ RegexCompiles(Unwrap(c.name_regex))
           /\ RegexMatches(Unwrap(c.name_regex), FileName(p))
    /\ IsSome(c.is_hidden) => StartsWithDot(FileName(p)) = Unwrap(c.is_hidden)

\* every predicate on the size, the age and the kind of the file that c sets
\* holds of what is at p
FileHolds(c, m) ==
    /\ IsSome(c.size_greater_than) => m.exists /\ m.size > Unwrap(c.size_greater_than)
    /\ IsSome(c.size_less_than) => m.exists /\ m.size < Unwrap(c.size_less_than)
    /\ IsSome(c.age_days_greater_than) => m.exists /\ m.age > Unwrap(c.age_days_greater_than)
    /\ IsSome(c.age_days_less_than) => m.exists /\ m.age < Unwrap(c.age_days_less_than)
    /\ IsSome(c.is_directory) => (m.exists /\ m.dir) = Unwrap(c.is_directory)

\* C23 as stated: for a condition whose patterns compile, matches on a path
\* that does not exist returns no error and returns false.
C23_MissingPathNeverMatches ==
    MatchesCalled /\ ~ disk[call.path].exists /\ PatternsCompile(Cond)
        => call.result = OkBool(FALSE)

\* C23: for a condition whose patterns compile, matches on a path that does
\* not exist returns no error; it returns false when a size or age predicate
\* is set or a directory is asked for, and otherwise what the predicates on
\* the name decide (true for the empty condition).
C23_MissingPathNeverFails ==
    MatchesCalled /\ ~ disk[call.path].exists /\ PatternsCompile(Cond)
        => /\ call.result.ok
           /\ call.result.val <=> /\ ~ NeedsMeta(Cond)
                                  /\ Cond.is_directory # Some(TRUE)
                                  /\ NameHolds(Cond, call.path)

\* matches was called on a missing path with a size predicate and patterns
\* that compile and match the name
C23_Witness ==
    /\ MatchesCalled /\ ~ disk[call.path].exists
    /\ IsSome(Cond.name_matches) /\ IsSome(Cond.size_greater_than)
    /\ NameHolds(Cond, call.path)
    /\ call.result = OkBool(FALSE)

\* C24: the empty condition matches every path, without error, and a
\* condition matches (returns true) exactly when every predicate it sets
\* holds.
C24_MatchesIsConjunction ==
    MatchesCalled
        => /\ Cond = EmptyCondition => call.result = OkBool(TRUE)
           /\ call.result = OkBool(TRUE)
                  <=> NameHolds(Cond, call.path) /\ FileHolds(Cond, disk[call.path])

\* matches returned true for a condition that sets predicates on the
\* extension (in another case than the file's), the name, the size and the
\* kind of the file
C24_Witness ==
    /\ MatchesCalled
    /\ IsSome(Cond.extension) /\ IsSome(Cond.name_matches)
    /\ IsSome(Cond.size_greater_than) /\ IsSome(Cond.is_directory)
    /\ IsSome(Cond.is_hidden)
    /\ call.result = OkBool(TRUE)

(***************************************************************************)
(* stop_daemon: the terminate signal, the liveness polls, the kill signal  *)
(* (daemon.rs).                                                            *)
(***************************************************************************)
\* stop_daemon is running or has returned, as the command or as the first
\* half of restart
Stopping == cli.cmd \in { "stop", "restart" }

\* C25: stop sends the kill signal only after it has sent the terminate
\* signal and then found the process alive at each of the 50 liveness polls;
\* once a poll has found the process gone, stop returns and the kill signal
\* is never sent.
C25_KillOnlyAfterFiftyPolls ==
    Stopping =>
        /\ cli.sent \in { << >>, << "SIGTERM" >>, << "SIGTERM", "SIGKILL" >> }
        /\ "SIGKILL" \in Range(cli.sent) => cli.polls = StopPolls /\ ~ cli.sawDead
        /\ cli.sawDead => /\ cli.sent = << "SIGTERM" >>
                          /\ cli.path = "exited"
                          /\ cli.polls < StopPolls
                          /\ cli.pc = "done" \/ cli.doing = "start"

\* stop has sent the kill signal to a daemon that outlived the 50 polls
C25_Witness ==
    /\ Stopping
    /\ cli.sent = << "SIGTERM", "SIGKILL" >>
    /\ cli.polls = StopPolls
    /\ cli.path = "killed"

(***************************************************************************)
(* The filter that applies to a file (watcher/mod.rs, allowed_rules_for).  *)
(***************************************************************************)
\* the registered directories whose canonical path is a prefix of the path c
Covering(w, c) ==
    { d \in CanonicalDirs : IsSome(w.watch_rules[d]) /\ starts_with(c, d) }

\* the one of them with the longest path
Longest(ds) == CHOOSE d \in ds : \A e \in ds : Len(Components(e)) <= Len(Components(d))

\* C26: the filter applied to a changed file is that of the registered
\* directory with the longest canonical path that is a prefix of the file's
\* canonical path (the path as the event gives it when it cannot be
\* resolved); if that directory's filter is empty all rules apply, even when
\* a shorter registered ancestor has a non-empty filter; a file under no
\* registered directory is evaluated against all rules.
C26_LongestPrefixFilter ==
    watches # << >> /\ IsSome(watches.lookup) =>
        LET l == Unwrap(watches.lookup)
            w == watches.watcher
            ds == Covering(w, canonicalize(l.file, l.exists))
        IN  IF ds = {} THEN l.allowed = None
            ELSE LET filter == Unwrap(w.watch_rules[Longest(ds)])
                 IN  l.allowed = IF filter = << >> THEN None ELSE Some(filter)

\* /in is registered with a filter and /in/sub with none; a file of /in/sub,
\* named through the link, gets all rules
C26_Witness ==
    /\ watches # << >> /\ IsSome(watches.lookup)
    /\ watches.watcher.watch_rules["/in"] = Some(<< "pdfs" >>)
    /\ watches.watcher.watch_rules["/in/sub"] = Some(<< >>)
    /\ Unwrap(watches.lookup).file = "/link/b.txt"
    /\ Unwrap(watches.lookup).exists
    /\ Unwrap(watches.lookup).allowed = None

(***************************************************************************)
(* The rule name given to the error sink (watcher/mod.rs,                  *)
(* find_matching_rule_name).                                               *)
(***************************************************************************)
\* the name of the rule of the engine that has the action a (the rules of a
\* watcher engine have different actions)
RuleWithAction(rs, a) == rs[CHOOSE i \in 1..Len(rs) : rs[i].action = a].name

\* C27: when an action fails, the rule name given to the error sink is the
\* name of the rule whose action was executed and failed for that path (the
\* first enabled rule allowed by the directory's filter that matched).
C27_ErrorNamesExecutedRule ==
    \A i \in 1..Len(pass.notified) :
        LET n == pass.notified[i]
        IN  IsSome(n.action) => n.rule_name = RuleWithAction(rules, Unwrap(n.action))

(***************************************************************************)
(* The timestamps of the debounce table (watcher/handler.rs).              *)
(***************************************************************************)
\* C28 as stated: after should_process handles an event containing path P,
\* the table's timestamp for P is the time of that event, whether P was
\* passed on or suppressed.
C28_EverySightingRecorded ==
    seen.last.op = "should_process" =>
        \A p \in Range(seen.last.paths) : recent[p] = Some(now)

\* C28: after should_process handles an event containing path P, the
\* table's timestamp for P is the time of that event if P was passed on; if
\* P was suppressed it is still the time of the event at which P was last
\* passed on, no more than a window ago.
C28_PassedOnSightingRecorded ==
    seen.last.op = "should_process" =>
        \A p \in Range(seen.last.paths) :
            IF p \in Range(seen.last.returned)
            THEN recent[p] = Some(now)
            ELSE /\ IsSome(recent[p])
                 /\ recent[p] = seen.last.before[p]
                 /\ now - Unwrap(recent[p]) <= debounce

\* a path passed on at one time is suppressed at a later time inside the
\* window: its timestamp is that of the earlier event
C28_Witness ==
    /\ seen.last.op = "should_process"
    /\ seen.last.paths = << "/in/report.PDF" >>
    /\ seen.last.returned = << >>
    /\ recent["/in/report.PDF"] = Some(now - 1)

(***************************************************************************)
(* Debounce cleanup and the polling cycle (watcher/mod.rs, daemon.rs,      *)
(* app/mod.rs).                                                            *)
(***************************************************************************)
\* C29: debounce cleanup is invoked exactly once per polling cycle, whether
\* or not the cycle produced events, under both drivers of the watcher (the
\* daemon's poll tick and the front end's embedded-watcher loop).
C29_CleanupOncePerCycle ==
    pass # << >> /\ pass.mode = "poll" /\ pass.pc = "done" => pass.cleanups = 1

(***************************************************************************)
(* A pattern that does not compile (rules/engine.rs, rules/condition.rs).  *)
(***************************************************************************)
\* the enabled rules that the filter lets through and whose condition
\* matches p
AllowedMatching(rs, p, allowed, d) ==
    { i \in EnabledMatching(rs, p, d) :
        IsSome(allowed) /\ Unwrap(allowed) # << >> => NameAllowed(Unwrap(allowed), rs[i].name) }

\* C30: a glob or regex that fails to compile in one rule is confined to that
\* rule and does not abort the evaluation of the path: evaluation continues
\* with the rules after it, so that whenever an enabled rule let through by
\* the filter matches the path, the action of the first such rule is what
\* the evaluation returns.
C30_BadPatternConfined ==
    call.fn \in { "evaluate", "evaluate_filtered" } =>
        LET ms == AllowedMatching(rules, call.path, call.allowed, disk)
        IN  ms # {} => call.result = OkAction(Some(rules[Min(ms)].action))

(***************************************************************************)
(* Events of other kinds (watcher/mod.rs, process_polled_events).          *)
(***************************************************************************)
\* C31: an event whose kind is not Create or Modify changes nothing: the
\* step that takes it from the batch evaluates no rule, executes no action,
\* creates or updates no debounce entry and leaves the processed counts as
\* they are; only the loop moves on to the next event.
C31_OtherKindsChangeNothing ==
    [][ pass # << >> /\ pass' # << >> /\ pass'.ignored = pass.ignored + 1
          => /\ recent' = recent
             /\ disk' = disk
             /\ pass' = [pass EXCEPT !.events = @ + 1, !.ignored = @ + 1] ]_vars

\* a Create event was processed and counted, the event after it was of
\* another kind and was ignored
C31_Witness ==
    /\ pass # << >> /\ pass.mode = "poll" /\ pass.pc = "events"
    /\ pass.events = 2 /\ pass.ignored = 1
    /\ Len(pass.outcomes) = 1 /\ pass.processed = 1
    /\ Cardinality(Entries(recent)) = 1

(***************************************************************************)
(* The claims about the watcher's threads.                                 *)
(***************************************************************************)
\* the matched counts of the scan threads of watcher g that scanned a file
RECURSIVE MatchedBy(_, _, _)
MatchedBy(ths, g, i) ==
    IF i > Len(ths) THEN 0
    ELSE (IF ths[i].gen = g THEN ths[i].matched ELSE 0) + MatchedBy(ths, g, i + 1)

\* the polling loop of watcher g is between two calls (or the watcher has
\* been replaced) and each of its scan threads has ended
AllDone(g) ==
    /\ scans.gen = g => scans.poll.pc = "idle"
    /\ \A t \in DOMAIN scans.threads :
           scans.threads[t].gen = g => scans.threads[t].pc = "done"

\* C32: no increment of the files-processed counter is lost: whatever the
\* interleaving of the polling loop and the scan threads of one watcher,
\* once they are all done the counter equals the sum of the per-cycle
\* processed counts plus the matched counts of every scan
C32_NoIncrementLost ==
    scans # << >> =>
        \A g \in 0..scans.gen :
            AllDone(g) =>
                scans.counter[g] = scans.polled[g] + MatchedBy(scans.threads, g, 1)

\* a scan that matched a file and a polling cycle that processed two files
\* have both added to the counter of the first watcher
C32_Witness ==
    /\ scans # << >> /\ scans.gen = 0 /\ AllDone(0)
    /\ scans.cycles = 1 /\ scans.polled[0] = 2
    /\ MatchedBy(scans.threads, 0, 1) = 1
    /\ scans.counter[0] = 3

\* C35: once a reload has completed, no file action is executed under the
\* pre-reload rule set: a scan thread started by a replaced watcher does not
\* go on to execute an action on a file
C35_NoActionUnderOldRules ==
    [][ scans # << >> /\ scans' # << >> =>
            \A t \in DOMAIN scans.threads :
                (scans.threads[t].gen < scans.gen /\ scans'.threads[t].pc = "exec")
                    => scans.threads[t].pc = "exec" ]_vars

\* the scan thread th of the watcher in use has evaluated the file f that
\* lay in the directory at registration time
ScanEvaluated(th, f) ==
    /\ th.gen = scans.gen
    /\ f \in Range(scans.dir)
    /\ \/ f \notin Range(th.todo)
       \/ th.pc = "exec" /\ th.cur = f

\* C36: a file is never acted on by two executions at once: the scan thread
\* and the polling loop never both execute an action on a file that existed
\* at registration time, and never both evaluate it
C36_PreExistingEvaluatedOnce ==
    scans # << >> =>
        \A t \in DOMAIN scans.threads, f \in ScanFiles :
            LET th == scans.threads[t]
            IN  /\ ~ (/\ th.gen = scans.gen /\ th.pc = "exec" /\ th.cur = f
                      /\ scans.poll.pc = "exec" /\ scans.poll.cur = f)
                /\ ~ (ScanEvaluated(th, f) /\ f \in scans.recent)

(***************************************************************************)
(* The claims about reloads and the status the daemon reports.             *)
(***************************************************************************)
ReloadLine == [utf8 |-> TRUE, text |-> "{\"type\":\"reload\"}"]

\* the iteration just ended answered Ok to a Reload request (d is the
\* daemon, process 1 when it runs in the foreground)
ReloadAnswered(d) ==
    daemon[d].served = Some([line |-> ReloadLine, resp |-> << ResponseOk >>])

\* the run loop is at its select!
AtSelect(d) == daemon[d].pc = "loop"

\* C33: after the daemon answers Ok to an IPC Reload request the reload is
\* still to come (the SIGHUP is pending, nothing has been reloaded), and
\* provided the run loop keeps running (it is at its select again and again)
\* a later iteration takes the sighup branch and performs the reload
C33_ReloadFollowsOk ==
    /\ [](ReloadAnswered(1) =>
              /\ AtSelect(1)
              /\ "SIGHUP" \in daemon[1].sigs
              /\ daemon[1].reloaded = None)
    /\ ([]<>AtSelect(1)) =>
           (ReloadAnswered(1) ~> (AtSelect(1) /\ "SIGHUP" \notin daemon[1].sigs))

\* the sighup branch has run right after the Reload arm and has replaced
\* the watcher by one built from the edited configuration file
C33_Witness ==
    /\ daemon[1].asked /\ AtSelect(1)
    /\ "SIGHUP" \notin daemon[1].sigs
    /\ IsSome(daemon[1].reloaded)
    /\ daemon[1].swapped
    /\ daemon[1].config = InboxConfig
    /\ daemon[1].watcher.rules = InboxConfig.rules
    /\ daemon[1].watcher.registered = 1

\* the daemon's record without the ghosts of one iteration and without the
\* pending signals: the configuration, the watcher (engine rules, registered
\* directories, watch_rules, counter, scan threads), the position in the
\* loop and the connections waiting
Kept37(dmd) ==
    [pc |-> dmd.pc, config |-> dmd.config, watcher |-> dmd.watcher,
     loaded |-> dmd.loaded, swapped |-> dmd.swapped, queue |-> dmd.queue,
     stream |-> dmd.stream]

\* C37: a reload that fails because the configuration cannot be loaded
\* leaves the daemon in its run loop with its configuration, rule engine,
\* watch registrations, watcher (and so its debounce table) and
\* files-processed counter unchanged, and with its connections still queued
C37_FailedReloadChangesNothing ==
    [][ \A d \in Pids :
            (/\ daemon[d].pc = "loop" /\ "SIGHUP" \in daemon[d].sigs
             /\ "SIGHUP" \notin daemon'[d].sigs /\ daemon'[d].hup = "load_failed")
                => /\ Kept37(daemon'[d]) = Kept37(daemon[d])
                   /\ Running(d)
                   /\ daemon'[d].pc = "loop" ]_vars

\* a daemon that had loaded the inbox configuration, processed a file and
\* then failed to reload a file that does not parse
C37_Witness ==
    /\ daemon[1].hup = "load_failed"
    /\ configFile = "invalid"
    /\ daemon[1].pc = "loop"
    /\ daemon[1].config = InboxConfig
    /\ daemon[1].watcher.rules = InboxConfig.rules
    /\ daemon[1].watcher.registered = 1
    /\ daemon[1].watcher.files_processed = 1
    /\ daemon[1].queue # << >>

\* C38: the rule count and the watch count of a Status or GetStats response
\* equal the number of rules of the engine the watcher is using and the
\* number of directories the watcher has registered
C38_StatusCountsTheWatcher ==
    \A d \in Pids :
        (IsSome(daemon[d].served) /\ Len(Unwrap(daemon[d].served).resp) = 1
             /\ Unwrap(daemon[d].served).resp[1].type = "status")
            => /\ Unwrap(daemon[d].served).resp[1].rules = daemon[d].watcher.rules
               /\ Unwrap(daemon[d].served).resp[1].watches = daemon[d].watcher.registered

(***************************************************************************)
(* The claim about cleanup and the debounce decisions.                     *)
(***************************************************************************)
\* C39: debounce cleanup never changes a debounce decision: with a non-zero
\* window, whatever events and cleanup calls came before, should_process
\* returns the paths it would return on the table that was never cleaned
\* (seen.returnedAt: for each path the time it was last returned)
C39_CleanupKeepsDecisions ==
    [][ (seen'.last.op = "should_process" /\ debounce > 0)
            => seen'.last.returned =
                   ShouldProcessFrom(seen.returnedAt, seen'.last.paths, 1, now, debounce).out ]_vars

\* should_process has returned a path whose entry cleanup had removed: the
\* path was returned before, and the table no longer knew it
C39_Witness ==
    /\ seen.last.op = "should_process"
    /\ debounce > 0
    /\ seen.last.paths = << "/in/report.PDF" >>
    /\ seen.last.returned = << "/in/report.PDF" >>
    /\ IsSome(seen.last.before["/in/report.PDF"])
    /\ "/in/report.PDF" \notin seen.last.known

(***************************************************************************)
(* The claim about the front end.                                          *)
(***************************************************************************)
\* C40: at the end of every iteration of the front end's main loop the
\* embedded watcher and the daemon are never both in charge: with
\* daemon_running the embedded watcher is absent, without it an embedded
\* watcher exists unless its creation failed; an iteration that started the
\* daemon ends without embedded watcher, one that stopped it ends with a
\* newly created one
C40_OneInCharge ==
    app # << >> /\ app.pc = "end" =>
        /\ app.daemon_running => app.embedded = None
        /\ ~ app.daemon_running => (IsSome(app.embedded) \/ app.failed)
        /\ ~ app.watcher_needs_restart
        /\ app.did = "started" => (app.daemon_running /\ app.embedded = None)
        /\ app.did = "stopped" =>
               /\ ~ app.daemon_running
               /\ app.embedded = Some(app.created) \/ app.failed

\* the front end began with its embedded watcher, started the daemon in one
\* iteration (the watcher was dropped) and stopped it in the next: a second
\* embedded watcher is in place
C40_Witness ==
    /\ app # << >> /\ app.pc = "end" /\ app.iter = 2
    /\ app.did = "stopped"
    /\ ~ app.daemon_running
    /\ app.embedded = Some(2)
    /\ app.created = 2

(***************************************************************************)
(* The claim about daemons side by side.                                   *)
(***************************************************************************)
\* C34: at most one daemon process is in the Running state at any time, for
\* any interleaving of start, stop, restart and foreground run, and a daemon
\* that exits removes the PID file or the socket only when they are its own
C34_OneDaemonRunning ==
    /\ [](Cardinality({ d \in Pids : Running(d) }) <= 1)
    /\ [][ \A d \in Pids :
               (daemon[d].pc \in { "cleanup_pid", "cleanup_sock" }
                    /\ daemon'[d].pc # daemon[d].pc)
                   => /\ pidFile' # pidFile => pidFile = Some(d)
                      /\ sockFile' # sockFile => sockFile = Some(d) ]_vars

====
